---------------------------- MODULE Spec2Model ----------------------------
(***************************************************************************)
(* Models of the puzzle programs of the repository.  The programs are      *)
(* independent of one another, so every program has its own variables,     *)
(* its own initial predicate and its own specification; a specification    *)
(* leaves the variables of the other programs at their idle value.         *)
(*                                                                         *)
(*   SpecAoc07    aoc07: part1 followed by part2 (the worker pool)         *)
(*   SpecAoc09    aoc09: play_game on a Circle                             *)
(*   SpecReact    aoc05: react, pass by pass                               *)
(*   SpecPart2    aoc05: the parallel map and min of part2                 *)
(*   SpecReacts   aoc05: reacts on every pair of bytes                     *)
(*   SpecAoc04    aoc04: MinutesAsleepIter over the events of a guard      *)
(*   SpecAoc22    aoc22: Cave::shortest_time                               *)
(*   SpecAoc16    aoc16: InstructionMapping::derive                        *)
(*   SpecDistances aoc15: Caves::distances, one popped cell at a time    *)
(*   SpecOutcome   aoc15: Caves::outcome, one turn of a unit at a time   *)
(*   SpecAoc18    aoc18: Area::step, one acre at a time                  *)
(*   SpecAoc06    aoc06: Grid::closest_location                          *)
(*   SpecPart2Vm  aoc21: VM::exec_part2, one instruction at a time       *)
(*   SpecExec21   aoc21: VM::exec, one instruction at a time             *)
(*   SpecAoc19    aoc19: VM::exec with VM::fast at instruction 3         *)
(*   SpecAoc13    aoc13: main and Transport::step, one cart at a time    *)
(*   SpecAoc24    aoc24: Combat::fight_to_end, one plan at a time        *)
(*   FairAoc24    SpecAoc24, the program never pausing                   *)
(***************************************************************************)
EXTENDS Integers, Sequences, FiniteSets, TLC

VARIABLES
    \* ---- aoc07 ----
    required_for,   \* RequiredFor: step -> set of required steps
    pc07,           \* position in main: part1 / part2 loops
    taken,          \* part1: taken
    p1_order,       \* part1: order
    p1_next,        \* part1: next
    status,         \* part2: workers.status (index 1 is worker 0)
    assigned,       \* part2: assigned
    done,           \* part2: done
    order,          \* part2: order
    next,           \* part2: next
    seconds,        \* part2: seconds
    work_on_log,    \* history: the calls of Workers::work_on, in order
    ticks,          \* history: step -> number of run_one_step calls spent on it
    finished_at,    \* history: step -> value of seconds when it completed
    \* ---- aoc09 ----
    marbles,        \* Circle.marbles: MarbleID -> Marble
    current,        \* Circle.current
    players,        \* play_game: the players' points
    value09,        \* play_game: the value of the next turn
    end09,          \* play_game: end
    removed,        \* history: the marbles Circle::remove was called on
    \* ---- aoc05 ----
    polymer_string, \* react: its argument
    polymer,        \* react: polymer
    react_pc,       \* react: "loop", or "done" once it has returned
    react_result,   \* react: the bytes it returns
    par_polymer,    \* part2: polymer
    par_pending,    \* part2: the letters whose map task has not run
    par_pool,       \* part2: the partial results not yet combined
    par_best,       \* part2: best
    b1,             \* reacts: b1
    b2,             \* reacts: b2
    reacts_result,  \* reacts: its result
    \* ---- aoc04 ----
    events,         \* the events of one guard, as main groups them
    iter_events,    \* MinutesAsleepIter.events: the events not yet read
    fell_asleep,    \* MinutesAsleepIter.fell_asleep: <<>> or <<minute>>
    pc04,           \* main's loop over the iterator
    yielded,        \* history: the ranges the iterator yielded
    error04,        \* the error the iterator yielded, if any
    \* ---- aoc22 ----
    cave,           \* Cave: bound, target and the type of every region
    queue,          \* shortest_time: queue, in the order it pops
    best,           \* shortest_time: best
    result22,       \* shortest_time: <<>>, <<"Ok", time>> or <<"Err">>
    \* ---- aoc16 ----
    samples,          \* Samples: the parsed samples
    unknown_to_known, \* InstructionMapping.unknown_to_known
    known_mapped,     \* InstructionMapping.known_mapped
    round16,          \* derive: iterations of `for _ in 0..16` done
    result16,         \* derive: <<>>, <<"Ok", map>> or <<"Err", message>>
    \* ---- aoc15 ----
    caves15,        \* Caves: [grid, units, max]
    dist_origin,    \* distances: origin
    dist_d,         \* distances: d
    dist_todo,      \* distances: todo
    dist_todo_set,  \* distances: todo_set
    dist_visited,   \* distances: visited
    dist_pc,        \* distances: "loop", "returned" ("off" when idle)
    step_pc,        \* outcome and step: "begin", "loop", "returned", ...
    step_coords,    \* step: the unit_coordinates not yet iterated
    any_move,       \* step: any_move
    rounds,         \* outcome: i
    unit_ids,       \* for the claims: coordinate -> name of the unit on it
    turns,          \* for the claims: the turns taken in this call of step
    \* ---- aoc18 ----
    acres,          \* Area.acres
    acres2,         \* Area.acres2
    new18,          \* step: new
    cells18,        \* step: the (x, y) of the two loops not yet visited
    minutes18,      \* main: calls of step made
    pc18,           \* "ready" between steps, "cells" inside step
    \* ---- aoc06 ----
    locations06,    \* Grid.locations
    c06,            \* closest_location: c
    min06,          \* closest_location: min
    unique06,       \* closest_location: unique
    rest06,         \* closest_location: the locations the loop has not seen
    result06,       \* closest_location: <<>> until it returns, then <<Option>>
    \* ---- aoc21 ----
    prog21,         \* Program: [ipreg, ops]
    registers21,    \* VM.registers
    ip21,           \* VM.ip
    cycle21,        \* exec_part2: cycle
    seen21,         \* exec_part2: seen
    result21,       \* exec_part2: <<>>, <<"Ok", value>> or <<"Err", message>>
    steps21,        \* instructions executed so far
    r5_log21,       \* for the claims: R5 at every arrival of ip at 28
    \* ---- aoc19 ----
    prog19,         \* Program: [ipreg, ops]
    registers19,    \* VM.registers
    ip19,           \* VM.ip
    result19,       \* VM::exec: <<>> or <<"Ok", value>>
    fast_log19,     \* for the claims: the last call of fast, or <<>>
    \* ---- aoc13 ----
    grid13,             \* Transport.grid: the tracks
    carts13,            \* Transport.carts: pairs <<coordinate, cart>>
    previous_carts13,   \* Transport::step: previous_carts
    snapshot13,         \* Transport::step: what is left of previous_carts.clone()
    crashes13,          \* Transport::step: crashes
    pc13,               \* "loop", "step", "done" or "off"
    phase13,            \* main: in the first or in the second loop
    output13,           \* main: the lines printed, and the error returned
    ticks13,            \* calls of Transport::step
    move13,             \* for the claims: the last cart moved in this tick
    tick_log13,         \* for the claims: carts at the start of the tick, collisions in it
    first_one13,        \* for the claims: where the first tick with one cart left ended
    none_before13,      \* for the claims: a tick ended with no cart before that
    \* ---- aoc24 ----
    armies24,       \* Combat: <<army1, army2>>, each the groups of an Army
    plans24,        \* Combat::fight: the plans not yet carried out
    pc24,           \* "main", "loop", "fight", "done" or "off"
    result24        \* Combat::fight_to_end: <<>> or <<the number of the winner>>

vars07 == <<required_for, pc07, taken, p1_order, p1_next, status, assigned,
            done, order, next, seconds, work_on_log, ticks, finished_at>>

vars09 == <<marbles, current, players, value09, end09, removed>>

vars05react == <<polymer_string, polymer, react_pc, react_result>>
vars05par == <<par_polymer, par_pending, par_pool, par_best>>
vars05reacts == <<b1, b2, reacts_result>>
vars05 == <<vars05react, vars05par, vars05reacts>>

vars04 == <<events, iter_events, fell_asleep, pc04, yielded, error04>>

vars22 == <<cave, queue, best, result22>>

vars16 == <<samples, unknown_to_known, known_mapped, round16, result16>>

vars15dist == <<dist_origin, dist_d, dist_todo, dist_todo_set, dist_visited,
                dist_pc>>
vars15step == <<step_pc, step_coords, any_move, rounds, unit_ids, turns>>
vars15 == <<caves15, vars15dist, vars15step>>

vars18 == <<acres, acres2, new18, cells18, minutes18, pc18>>

vars06 == <<locations06, c06, min06, unique06, rest06, result06>>

vars21 == <<prog21, registers21, ip21, cycle21, seen21, result21, steps21,
            r5_log21>>

vars19 == <<prog19, registers19, ip19, result19, fast_log19>>

vars13 == <<grid13, carts13, previous_carts13, snapshot13, crashes13, pc13,
            phase13, output13, ticks13, move13, tick_log13, first_one13,
            none_before13>>

vars24 == <<armies24, plans24, pc24, result24>>

vars == <<vars07, vars09, vars05, vars04, vars22, vars16, vars15, vars18,
         vars06, vars21, vars19, vars13, vars24>>

\* The idle values of the variables of a program that is not running.
Off07 ==
    /\ required_for = <<>> /\ pc07 = "off" /\ taken = {} /\ p1_order = <<>>
    /\ p1_next = <<>> /\ status = <<>> /\ assigned = {} /\ done = {}
    /\ order = <<>> /\ next = <<>> /\ seconds = 0 /\ work_on_log = <<>>
    /\ ticks = <<>> /\ finished_at = <<>>

Off09 ==
    /\ marbles = <<>> /\ current = 0 /\ players = <<>> /\ value09 = 0
    /\ end09 = 0 /\ removed = {}

Off05 ==
    /\ polymer_string = <<>> /\ polymer = <<>> /\ react_pc = "off"
    /\ react_result = <<>> /\ par_polymer = <<>> /\ par_pending = {}
    /\ par_pool = {} /\ par_best = -1 /\ b1 = 0 /\ b2 = 0
    /\ reacts_result = "none"

Off04 ==
    /\ events = <<>> /\ iter_events = <<>> /\ fell_asleep = <<>>
    /\ pc04 = "off" /\ yielded = <<>> /\ error04 = ""

Off22 == cave = <<>> /\ queue = <<>> /\ best = <<>> /\ result22 = <<"off">>

Off16 ==
    /\ samples = <<>> /\ unknown_to_known = <<>> /\ known_mapped = {}
    /\ round16 = 0 /\ result16 = <<"off">>

Off15 ==
    /\ caves15 = <<>> /\ dist_origin = <<>> /\ dist_d = <<>>
    /\ dist_todo = <<>> /\ dist_todo_set = {} /\ dist_visited = {}
    /\ dist_pc = "off" /\ step_pc = "off" /\ step_coords = <<>>
    /\ any_move = FALSE /\ rounds = 0 /\ unit_ids = <<>> /\ turns = <<>>

Off18 ==
    /\ acres = <<>> /\ acres2 = <<>> /\ new18 = <<>> /\ cells18 = <<>>
    /\ minutes18 = 0 /\ pc18 = "off"

Off06 ==
    /\ locations06 = <<>> /\ c06 = <<>> /\ min06 = <<>> /\ unique06 = FALSE
    /\ rest06 = <<>> /\ result06 = <<"off">>

Off21 ==
    /\ prog21 = <<>> /\ registers21 = <<>> /\ ip21 = 0 /\ cycle21 = <<>>
    /\ seen21 = {} /\ result21 = <<"off">> /\ steps21 = 0 /\ r5_log21 = <<>>

Off19 ==
    /\ prog19 = <<>> /\ registers19 = <<>> /\ ip19 = 0
    /\ result19 = <<"off">> /\ fast_log19 = <<>>

Off13 ==
    /\ grid13 = <<>> /\ carts13 = {} /\ previous_carts13 = {}
    /\ snapshot13 = <<>> /\ crashes13 = {} /\ pc13 = "off" /\ phase13 = 0
    /\ output13 = <<>> /\ ticks13 = 0 /\ move13 = <<>> /\ tick_log13 = <<>>
    /\ first_one13 = <<>> /\ none_before13 = FALSE

Off24 ==
    /\ armies24 = <<>> /\ plans24 = <<>> /\ pc24 = "off" /\ result24 = <<>>

OthersOff(p) ==
    /\ IF p = "07" THEN TRUE ELSE Off07
    /\ IF p = "09" THEN TRUE ELSE Off09
    /\ IF p = "05" THEN TRUE ELSE Off05
    /\ IF p = "04" THEN TRUE ELSE Off04
    /\ IF p = "22" THEN TRUE ELSE Off22
    /\ IF p = "16" THEN TRUE ELSE Off16
    /\ IF p = "15" THEN TRUE ELSE Off15
    /\ IF p = "18" THEN TRUE ELSE Off18
    /\ IF p = "06" THEN TRUE ELSE Off06
    /\ IF p = "21" THEN TRUE ELSE Off21
    /\ IF p = "19" THEN TRUE ELSE Off19
    /\ IF p = "13" THEN TRUE ELSE Off13
    /\ IF p = "24" THEN TRUE ELSE Off24

OthersSame(p) ==
    /\ IF p = "07" THEN TRUE ELSE UNCHANGED vars07
    /\ IF p = "09" THEN TRUE ELSE UNCHANGED vars09
    /\ IF p = "05" THEN TRUE ELSE UNCHANGED vars05
    /\ IF p = "04" THEN TRUE ELSE UNCHANGED vars04
    /\ IF p = "22" THEN TRUE ELSE UNCHANGED vars22
    /\ IF p = "16" THEN TRUE ELSE UNCHANGED vars16
    /\ IF p = "15" THEN TRUE ELSE UNCHANGED vars15
    /\ IF p = "18" THEN TRUE ELSE UNCHANGED vars18
    /\ IF p = "06" THEN TRUE ELSE UNCHANGED vars06
    /\ IF p = "21" THEN TRUE ELSE UNCHANGED vars21
    /\ IF p = "19" THEN TRUE ELSE UNCHANGED vars19
    /\ IF p = "13" THEN TRUE ELSE UNCHANGED vars13
    /\ IF p = "24" THEN TRUE ELSE UNCHANGED vars24

-----------------------------------------------------------------------------
(* Sequences, as Vec<T> is used by the programs.                           *)

RECURSIVE InsertSorted(_, _)
InsertSorted(x, s) ==
    IF s = <<>> THEN <<x>>
    ELSE IF x <= Head(s) THEN <<x>> \o s
    ELSE <<Head(s)>> \o InsertSorted(x, Tail(s))

\* Vec::sort on a vector of totally ordered scalars.
RECURSIVE SortVec(_)
SortVec(s) == IF s = <<>> THEN <<>> ELSE InsertSorted(Head(s), SortVec(Tail(s)))

\* Vec::dedup: removes consecutive repeated elements.
RECURSIVE Dedup(_)
Dedup(s) ==
    IF Len(s) <= 1 THEN s
    ELSE IF s[1] = s[2] THEN Dedup(Tail(s))
    ELSE <<s[1]>> \o Dedup(Tail(s))

\* Vec::reverse.
RECURSIVE Reverse(_)
Reverse(s) == IF s = <<>> THEN <<>> ELSE Reverse(Tail(s)) \o <<Head(s)>>

Range(s) == {s[i] : i \in 1..Len(s)}

\* The elements of a finite set of integers in ascending order.
RECURSIVE Ascending(_)
Ascending(S) ==
    IF S = {} THEN <<>>
    ELSE LET m == CHOOSE x \in S : \A y \in S : x <= y
         IN <<m>> \o Ascending(S \ {m})

SetMax(S) == CHOOSE x \in S : \A y \in S : y <= x


-----------------------------------------------------------------------------
(***************************************************************************)
(* aoc07: the order of dependent steps, alone (part1) and with a pool of   *)
(* workers (part2).  A Step (a char 'A'..'Z') is modelled by its position  *)
(* in the alphabet, 'A' = 1, which keeps the order of the chars.           *)
(***************************************************************************)

NumSteps == 7          \* letters used by the wide inputs
SmallSteps == 3        \* letters used by the small inputs
MaxDeps == 3           \* dependency lines of a small input
WorkerCount == 5       \* Workers::new(5)
StepBaseSeconds == 60  \* the 60 of Workers::work_on

RECURSIVE SubsetsUpTo(_, _)
SubsetsUpTo(S, k) ==
    IF k = 0 THEN {{}}
    ELSE LET T == SubsetsUpTo(S, k - 1)
         IN T \cup {t \cup {x} : t \in T, x \in S}

Dependency(step, required) == [step |-> step, required |-> required]

\* The inputs: every list of at most MaxDeps dependency lines over the first
\* SmallSteps letters (self-dependencies and cycles included), every input
\* in which one step requires a set of the others, and every input in which
\* a set of steps all require one step.  The last two make more steps ready
\* than there are workers.
DepInputs ==
    SubsetsUpTo({Dependency(s, r) : s \in 1..SmallSteps, r \in 1..SmallSteps},
                MaxDeps)
    \cup {{Dependency(NumSteps, r) : r \in R} : R \in SUBSET (1..(NumSteps - 1))}
    \cup {{Dependency(s, 1) : s \in R} : R \in SUBSET (2..NumSteps)}

\* main: the RequiredFor map built from the parsed dependency lines.
RequiredFor(deps) ==
    [s \in {d.step : d \in deps} \cup {d.required : d \in deps} |->
        {d.required : d \in {e \in deps : e.step = s}}]

\* The order in which iterating a HashMap yields its keys is unspecified.
\* These are the iteration orders the model draws from.
KeyOrders(rf) == {Ascending(DOMAIN rf), Reverse(Ascending(DOMAIN rf))}

\* find_next_steps without its call of dedup (line 121).
find_next_steps_without_dedup(rf, tk, dn, next_stack, iter) ==
    LET ready(s) == s \notin tk /\ rf[s] \subseteq dn
        pushed == next_stack \o SelectSeq(iter, ready)
    IN Reverse(SortVec(pushed))

\* find_next_steps without its call of reverse (line 122).
find_next_steps_without_reverse(rf, tk, dn, next_stack, iter) ==
    LET ready(s) == s \notin tk /\ rf[s] \subseteq dn
        pushed == next_stack \o SelectSeq(iter, ready)
    IN Dedup(SortVec(pushed))

find_next_steps(rf, tk, dn, next_stack, iter) ==
    LET ready(s) == s \notin tk /\ rf[s] \subseteq dn
        pushed == next_stack \o SelectSeq(iter, ready)
    IN Reverse(Dedup(SortVec(pushed)))

Idle == [kind |-> "Idle"]
Working(step, remaining) ==
    [kind |-> "Working", step |-> step, remaining |-> remaining]

\* Workers::available: the idle workers, in ascending order.
available(st) == Ascending({w \in DOMAIN st : st[w] = Idle})

all_idle(st) == \A w \in DOMAIN st : st[w] = Idle

\* Workers::work_on; work_on_asserts is its assertion (line 162), whose
\* failure ends the program.
work_on_asserts(st, worker) == st[worker] = Idle

\* work_on with the step's letter counted from 'A' = 0.
work_on_from_zero(st, worker, step) ==
    [st EXCEPT ![worker] = Working(step, step - 1 + StepBaseSeconds)]

work_on(st, worker, step) ==
    [st EXCEPT ![worker] = Working(step, step - 1 + 1 + StepBaseSeconds)]

\* Workers::run_one_step from worker w on; p holds status, order and done.
RECURSIVE run_one_step(_, _)
run_one_step(w, p) ==
    IF w > Len(p.status) THEN p
    ELSE LET s == p.status[w]
         IN IF s = Idle THEN run_one_step(w + 1, p)
            ELSE IF s.remaining - 1 = 0
            THEN run_one_step(w + 1,
                    [status |-> [p.status EXCEPT ![w] = Idle],
                     order |-> Append(p.order, s.step),
                     done |-> p.done \cup {s.step}])
            ELSE run_one_step(w + 1,
                    [p EXCEPT !.status[w] = Working(s.step, s.remaining - 1)])

\* The loop of part2 without its assigned.insert (line 87).
RECURSIVE assign_loop_without_insert(_, _, _)
assign_loop_without_insert(avail, p, now) ==
    IF avail = <<>> \/ p.next = <<>> \/ p.panicked THEN p
    ELSE LET next_step == p.next[Len(p.next)]
             worker == Head(avail)
         IN assign_loop_without_insert(Tail(avail),
                [status |-> IF work_on_asserts(p.status, worker)
                            THEN work_on(p.status, worker, next_step)
                            ELSE p.status,
                 panicked |-> ~work_on_asserts(p.status, worker),
                 next |-> SubSeq(p.next, 1, Len(p.next) - 1),
                 assigned |-> p.assigned,
                 log |-> Append(p.log, [step |-> next_step,
                                         worker |-> worker,
                                         at |-> now])],
                now)

\* part2, lines 82-89: the loop over the available workers.  p holds status,
\* next, assigned, the history of the work_on calls, and whether work_on's
\* assertion failed.
RECURSIVE assign_loop(_, _, _)
assign_loop(avail, p, now) ==
    IF avail = <<>> \/ p.next = <<>> \/ p.panicked THEN p
    ELSE LET next_step == p.next[Len(p.next)]
             worker == Head(avail)
         IN assign_loop(Tail(avail),
                [status |-> IF work_on_asserts(p.status, worker)
                            THEN work_on(p.status, worker, next_step)
                            ELSE p.status,
                 panicked |-> ~work_on_asserts(p.status, worker),
                 next |-> SubSeq(p.next, 1, Len(p.next) - 1),
                 assigned |-> p.assigned \cup {next_step},
                 log |-> Append(p.log, [step |-> next_step,
                                         worker |-> worker,
                                         at |-> now])],
                now)

Init07 ==
    /\ required_for \in {RequiredFor(d) : d \in DepInputs}
    /\ pc07 = "p1_find"
    /\ taken = {}
    /\ p1_order = <<>>
    /\ p1_next = <<>>
    /\ status = [w \in 1..WorkerCount |-> Idle]
    /\ assigned = {}
    /\ done = {}
    /\ order = <<>>
    /\ next = <<>>
    /\ seconds = 0
    /\ work_on_log = <<>>
    /\ ticks = [s \in {} |-> 0]
    /\ finished_at = [s \in {} |-> 0]
    /\ OthersOff("07")

vars07p1 == <<taken, p1_order, p1_next>>
vars07p2 == <<status, assigned, done, order, next, seconds, work_on_log,
              ticks, finished_at>>

\* part1, line 53.
P1Find ==
    /\ pc07 = "p1_find"
    /\ \E iter \in KeyOrders(required_for) :
         p1_next' = find_next_steps(required_for, taken, taken, p1_next, iter)
    /\ pc07' = "p1_pop"
    /\ UNCHANGED <<required_for, taken, p1_order, vars07p2>>
    /\ OthersSame("07")

\* part1, lines 54-59, a step popped.
P1Pop ==
    /\ pc07 = "p1_pop"
    /\ p1_next # <<>>
    /\ LET next_step == p1_next[Len(p1_next)]
       IN /\ p1_next' = SubSeq(p1_next, 1, Len(p1_next) - 1)
          /\ taken' = taken \cup {next_step}
          /\ p1_order' = Append(p1_order, next_step)
    /\ pc07' = "p1_find"
    /\ UNCHANGED <<required_for, vars07p2>>
    /\ OthersSame("07")

\* part1, line 55: the loop ends, and main goes on to part2.
P1Break ==
    /\ pc07 = "p1_pop"
    /\ p1_next = <<>>
    /\ pc07' = "p2_run"
    /\ UNCHANGED <<required_for, vars07p1, vars07p2>>
    /\ OthersSame("07")

\* part2, lines 76-78.
P2Run ==
    /\ pc07 = "p2_run"
    /\ LET r == run_one_step(1, [status |-> status, order |-> order,
                                 done |-> done])
           on(s) == {w \in DOMAIN status :
                       status[w] # Idle /\ status[w].step = s}
       IN /\ status' = r.status
          /\ order' = r.order
          /\ done' = r.done
          /\ ticks' = [s \in DOMAIN ticks \cup {status[w].step :
                                  w \in {v \in DOMAIN status : status[v] # Idle}}
                         |-> (IF s \in DOMAIN ticks THEN ticks[s] ELSE 0)
                             + Cardinality(on(s))]
          /\ finished_at' = [s \in r.done |->
                               IF s \in done THEN finished_at[s] ELSE seconds]
          /\ \E iter \in KeyOrders(required_for) :
               next' = find_next_steps(required_for, assigned, r.done, next, iter)
    /\ pc07' = "p2_assign"
    /\ UNCHANGED <<required_for, vars07p1, assigned, seconds, work_on_log>>
    /\ OthersSame("07")

\* part2, lines 79-81.
P2Break ==
    /\ pc07 = "p2_assign"
    /\ next = <<>> /\ all_idle(status)
    /\ pc07' = "done"
    /\ UNCHANGED <<required_for, vars07p1, vars07p2>>
    /\ OthersSame("07")

\* part2, lines 82-90.
P2Assign ==
    /\ pc07 = "p2_assign"
    /\ ~(next = <<>> /\ all_idle(status))
    /\ LET r == assign_loop(available(status),
                            [status |-> status, panicked |-> FALSE,
                             next |-> next, assigned |-> assigned,
                             log |-> work_on_log],
                            seconds)
       IN /\ next' = r.next
          /\ assigned' = r.assigned
          /\ work_on_log' = r.log
          /\ IF r.panicked
             THEN /\ pc07' = "panic"
                  /\ UNCHANGED <<status, seconds>>
             ELSE /\ pc07' = "p2_run"
                  /\ status' = r.status
                  /\ seconds' = seconds + 1
    /\ UNCHANGED <<required_for, vars07p1, done, order, ticks, finished_at>>
    /\ OthersSame("07")

Next07 == P1Find \/ P1Pop \/ P1Break \/ P2Run \/ P2Break \/ P2Assign

SpecAoc07 == Init07 /\ [][Next07]_vars


(* ---- the claims about aoc07 ---- *)

StepsOn(st) == {st[w].step : w \in {v \in DOMAIN st : st[v] # Idle}}

\* C1: in part2 a step is handed to a worker (work_on) only when every step
\* it depends on is in `done`, and no step is handed to a worker twice.
C1_HandedAfterDependenciesOnce ==
    /\ \A i \in 1..Len(work_on_log) :
         required_for[work_on_log[i].step] \subseteq done
    /\ \A i, j \in 1..Len(work_on_log) :
         i # j => work_on_log[i].step # work_on_log[j].step

\* A step with dependencies has been handed to a worker after two others.
C1_Witness ==
    /\ Len(work_on_log) >= 3
    /\ required_for[work_on_log[Len(work_on_log)].step] # {}

\* The seconds counter at the work_on call of step s.
HandedAt(s) ==
    LET i == CHOOSE j \in 1..Len(work_on_log) : work_on_log[j].step = s
    IN work_on_log[i].at

\* C9: a step handed to a worker at second t stays on it for exactly
\* 60 + (position of its letter) calls of run_one_step; the last of them
\* appends it to `order`, puts it in `done` and idles the worker; and the
\* loop ends with `seconds` equal to the completion time of the last step.
C9_StepDuration ==
    /\ \A w \in DOMAIN status :
         status[w] # Idle =>
           /\ status[w].remaining >= 1
           /\ status[w].step \notin done
           /\ status[w].step \notin Range(order)
           /\ (IF status[w].step \in DOMAIN ticks
               THEN ticks[status[w].step] ELSE 0) + status[w].remaining
                = StepBaseSeconds + status[w].step
    /\ \A s \in done :
         /\ ticks[s] = StepBaseSeconds + s
         /\ finished_at[s] = HandedAt(s) + StepBaseSeconds + s
         /\ Cardinality({i \in 1..Len(order) : order[i] = s}) = 1
         /\ s \notin StepsOn(status)
    /\ Range(order) = done
    /\ pc07 = "done" =>
         seconds = (IF done = {} THEN 0
                    ELSE SetMax({finished_at[s] : s \in done}))

\* The loop has ended after completing a step that waited for another one.
C9_Witness ==
    /\ pc07 = "done"
    /\ \E s \in done : required_for[s] # {} /\ finished_at[s] = seconds

NextStackOk(stack, tk, dn) ==
    /\ \A i \in 1..(Len(stack) - 1) : stack[i] > stack[i + 1]
    /\ \A i \in 1..Len(stack) :
         /\ stack[i] \notin tk
         /\ stack[i] \in DOMAIN required_for
         /\ required_for[stack[i]] \subseteq dn

\* C10: after every call of find_next_steps by part1 and part2, next_stack is
\* strictly decreasing (so without duplicates), holds no step of `taken`, and
\* holds only steps whose dependencies are all in `done`.
C10_NextStackSorted ==
    /\ pc07 = "p1_pop" => NextStackOk(p1_next, taken, taken)
    /\ pc07 = "p2_assign" => NextStackOk(next, assigned, done)

\* A call of find_next_steps in part2 that found entries left on the stack
\* by the call before it: no worker is idle, so no step completed in this
\* iteration, and the stack is not empty.
C10_Witness ==
    /\ pc07 = "p2_assign"
    /\ seconds > 0
    /\ next # <<>>
    /\ \A w \in DOMAIN status : status[w] # Idle

\* The steps emitted before position i of the order of part1.
EmittedBefore(i) == {p1_order[j] : j \in 1..(i - 1)}

\* C11: the order of part1 holds each step at most once, holds every step
\* after all the steps it depends on, and at each position holds the least
\* step among those not yet emitted whose dependencies have all been emitted.
C11_Part1Order ==
    \A i \in 1..Len(p1_order) :
      /\ p1_order[i] \notin EmittedBefore(i)
      /\ required_for[p1_order[i]] \subseteq EmittedBefore(i)
      /\ \A s \in DOMAIN required_for :
           (s \notin EmittedBefore(i) /\ required_for[s] \subseteq EmittedBefore(i))
             => p1_order[i] <= s

\* part1 has ended with an order that is not the alphabetical one: a step was
\* held back by its dependencies while a later letter was emitted.
C11_Witness ==
    /\ pc07 = "p2_run"
    /\ Len(p1_order) >= 3
    /\ \E i \in 1..(Len(p1_order) - 1) : p1_order[i] > p1_order[i + 1]


-----------------------------------------------------------------------------
(***************************************************************************)
(* aoc09: the marble game on a circular doubly linked list.                *)
(***************************************************************************)

MaxPlayers == 3     \* the numbers of players tried (PLAYERS in the program)
LastMarble == 100   \* the marbles played (LAST_MARBLE in the program)
RemovalPeriod == 23 \* Circle::turn: value % 23
RemovalBack == 7    \* Circle::turn: counter_clockwise(7)
CurrentBack == 6    \* Circle::turn: counter_clockwise(6)

Marble(value, prev, nxt) == [value |-> value, prev |-> prev, next |-> nxt]

\* Marble::unlinked
unlinked(value) == Marble(value, 0, 0)

\* Vec::len and Vec::push of Circle.marbles, whose index is the MarbleID.
marbles_len(ms) == Cardinality(DOMAIN ms)
marbles_push(ms, m) ==
    [id \in 0..marbles_len(ms) |-> IF id = marbles_len(ms) THEN m ELSE ms[id]]

max_marble_value(ms) == marbles_len(ms) - 1

RECURSIVE clockwise(_, _, _)
clockwise(ms, id, i) == IF i > 0 THEN clockwise(ms, ms[id].next, i - 1) ELSE id

RECURSIVE counter_clockwise(_, _, _)
counter_clockwise(ms, id, i) ==
    IF i > 0 THEN counter_clockwise(ms, ms[id].prev, i - 1) ELSE id

\* insert_after without the assignment of line 115.
insert_after_without_prev(ms, to_insert, after) ==
    LET old_next == ms[after].next
        m1 == [ms EXCEPT ![after].next = to_insert]
        m3 == [m1 EXCEPT ![to_insert].prev = after]
    IN [m3 EXCEPT ![to_insert].next = old_next]

insert_after(ms, to_insert, after) ==
    LET old_next == ms[after].next
        m1 == [ms EXCEPT ![after].next = to_insert]
        m2 == [m1 EXCEPT ![old_next].prev = to_insert]
        m3 == [m2 EXCEPT ![to_insert].prev = after]
    IN [m3 EXCEPT ![to_insert].next = old_next]

remove(ms, id) ==
    LET prev == ms[id].prev
        nxt == ms[id].next
        m1 == [ms EXCEPT ![prev].next = nxt]
    IN [m1 EXCEPT ![nxt].prev = prev]

\* Circle::new and the start of play_game.
Init09 ==
    /\ marbles = [id \in {0} |-> Marble(0, 0, 0)]
    /\ current = 0
    /\ \E n \in 1..MaxPlayers : players = [i \in 1..n |-> 0]
    /\ value09 = max_marble_value(marbles) + 1
    /\ end09 = max_marble_value(marbles) + 1 + LastMarble
    /\ removed = {}
    /\ OthersOff("09")

\* The player of the turn with this value: (0..players.len()).cycle() zipped
\* with start..end, start being 1.
player_id(value) == ((value - 1) % Len(players)) + 1

\* Circle::turn, lines 87-92: the marble is placed.
TurnPlace ==
    /\ value09 < end09
    /\ value09 % RemovalPeriod # 0
    /\ LET marble_id == marbles_len(marbles)
           added == marbles_push(marbles, unlinked(value09))
           insert_at == clockwise(added, current, 1)
       IN /\ marbles' = insert_after(added, marble_id, insert_at)
          /\ current' = marble_id
    /\ value09' = value09 + 1
    /\ UNCHANGED <<players, end09, removed>>
    /\ OthersSame("09")

\* Circle::turn, lines 87 and 95-99: the marble is kept and another removed.
TurnRemove ==
    /\ value09 < end09
    /\ value09 % RemovalPeriod = 0
    /\ LET added == marbles_push(marbles, unlinked(value09))
           remove_id == counter_clockwise(added, current, RemovalBack)
           after == remove(added, remove_id)
       IN /\ players' = [players EXCEPT ![player_id(value09)] =
                            @ + value09 + added[remove_id].value]
          /\ marbles' = after
          /\ current' = counter_clockwise(after, current, CurrentBack)
          /\ removed' = removed \cup {remove_id}
    /\ value09' = value09 + 1
    /\ UNCHANGED end09
    /\ OthersSame("09")

Next09 == TurnPlace \/ TurnRemove

SpecAoc09 == Init09 /\ [][Next09]_vars

(* ---- the claim about aoc09 ---- *)

\* The marbles reached from id by following `next`.
RECURSIVE Walk(_, _)
Walk(id, seen) ==
    IF id \in seen THEN seen ELSE Walk(marbles[id].next, seen \cup {id})

\* C3: after Circle::new and after every turn of play_game, the marbles
\* reached from `current` along `next` form one cycle through `current`, on
\* which next and prev are inverse to each other, and which holds no marble
\* that was removed.
C3_CircleIsCycle ==
    LET C == Walk(current, {})
    IN /\ \E m \in C : marbles[m].next = current
       /\ \A m \in C : /\ marbles[marbles[m].next].prev = m
                       /\ marbles[marbles[m].prev].next = m
       /\ C \cap removed = {}

\* Two marbles have been removed and a marble placed after that.
C3_Witness ==
    /\ Cardinality(removed) >= 2
    /\ (value09 - 1) % RemovalPeriod # 0
    /\ Cardinality(Walk(current, {})) > RemovalPeriod


-----------------------------------------------------------------------------
(***************************************************************************)
(* aoc05: polymer reduction.  A polymer is a sequence of bytes.            *)
(***************************************************************************)

ReactLetters == 2    \* letters of the polymers given to react
MaxPolymerLen == 6   \* longest polymer given to react
NumLetters == 3      \* letters of part2, b'A'..=b'Z' in the program
MaxParLen == 3       \* longest polymer given to part2
ByteMax == 255       \* u8::MAX
UpperA == 65         \* b'A'
CaseGap == 32        \* the 32 of reacts and of part2

Upper(k) == UpperA + k - 1
Lower(k) == Upper(k) + CaseGap

\* The units of the first n letters, in both cases.
Units(n) == {Upper(k) : k \in 1..n} \cup {Lower(k) : k \in 1..n}

\* The byte strings over S of length at most n.
SeqsUpTo(S, n) == UNION {[1..k -> S] : k \in 0..n}

reacts(x, y) == IF x < y THEN y - x = CaseGap ELSE x - y = CaseGap

\* The while loop of react without its last push (lines 54-56).
RECURSIVE react_pass_without_last(_, _, _, _)
react_pass_without_last(p, i, reacted_polymer, reacted) ==
    IF i < Len(p)
    THEN IF reacts(p[i], p[i + 1])
         THEN react_pass_without_last(p, i + 2, reacted_polymer, TRUE)
         ELSE react_pass_without_last(p, i + 1, Append(reacted_polymer, p[i]),
                                      reacted)
    ELSE [polymer |-> reacted_polymer, reacted |-> reacted]

\* One iteration of the loop of react, lines 43-59: i is the index of the
\* source plus one less, so that p[i] here is polymer[i - 1] there.
RECURSIVE react_pass(_, _, _, _)
react_pass(p, i, reacted_polymer, reacted) ==
    IF i < Len(p)
    THEN IF reacts(p[i], p[i + 1])
         THEN react_pass(p, i + 2, reacted_polymer, TRUE)
         ELSE react_pass(p, i + 1, Append(reacted_polymer, p[i]), reacted)
    ELSE [polymer |-> IF i = Len(p) THEN Append(reacted_polymer, p[i])
                      ELSE reacted_polymer,
          reacted |-> reacted]

RECURSIVE react(_)
react(p) ==
    LET r == react_pass(p, 1, <<>>, FALSE)
    IN IF r.reacted THEN react(r.polymer) ELSE r.polymer

InitReact ==
    /\ polymer_string \in SeqsUpTo(Units(ReactLetters), MaxPolymerLen)
    /\ polymer = polymer_string
    /\ react_pc = "loop"
    /\ react_result = <<>>
    /\ par_polymer = <<>> /\ par_pending = {} /\ par_pool = {}
    /\ par_best = -1 /\ b1 = 0 /\ b2 = 0 /\ reacts_result = "none"
    /\ OthersOff("05")

\* react, lines 43-62: a pass in which units reacted.
ReactPass ==
    /\ react_pc = "loop"
    /\ LET r == react_pass(polymer, 1, <<>>, FALSE)
       IN /\ r.reacted
          /\ polymer' = r.polymer
    /\ UNCHANGED <<polymer_string, react_pc, react_result>>
    /\ UNCHANGED <<vars05par, vars05reacts>>
    /\ OthersSame("05")

\* react, lines 43-66: the pass in which nothing reacted, and the return.
ReactReturn ==
    /\ react_pc = "loop"
    /\ LET r == react_pass(polymer, 1, <<>>, FALSE)
       IN /\ ~r.reacted
          /\ polymer' = r.polymer
          /\ react_result' = r.polymer
    /\ react_pc' = "done"
    /\ UNCHANGED polymer_string
    /\ UNCHANGED <<vars05par, vars05reacts>>
    /\ OthersSame("05")

NextReact == ReactPass \/ ReactReturn

SpecReact == InitReact /\ [][NextReact]_vars

\* str::replace(unit, ""): the polymer without the unit.
replace_unit(p, unit) == SelectSeq(p, LAMBDA u : u # unit)

\* The closure of part2's map, lines 26-31, for the letter b.
part2_map(p, b) ==
    LET unit1 == b
        unit2 == b + CaseGap
        cleansed == replace_unit(replace_unit(p, unit1), unit2)
    IN Len(react(cleansed))

\* A combine that keeps its left argument.
par_min_left(x, y) == x

\* Iterator::min of the parallel iterator: how two partial results combine.
par_min(x, y) == IF y < x THEN y ELSE x

InitPart2 ==
    /\ par_polymer \in SeqsUpTo(Units(NumLetters), MaxParLen)
    /\ par_pending = {Upper(k) : k \in 1..NumLetters}
    /\ par_pool = {}
    /\ par_best = -1
    /\ polymer_string = <<>> /\ polymer = <<>> /\ react_pc = "off"
    /\ react_result = <<>> /\ b1 = 0 /\ b2 = 0 /\ reacts_result = "none"
    /\ OthersOff("05")

\* A map task runs: it reads the polymer and adds its own partial result.
MapTask ==
    /\ \E b \in par_pending :
         /\ par_pending' = par_pending \ {b}
         /\ par_pool' = par_pool \cup
                {[of |-> {b}, min |-> part2_map(par_polymer, b)]}
    /\ UNCHANGED <<par_polymer, par_best>>
    /\ UNCHANGED <<vars05react, vars05reacts>>
    /\ OthersSame("05")

\* Two partial results are combined into one.
Combine ==
    /\ \E x \in par_pool : \E y \in par_pool \ {x} :
         par_pool' = (par_pool \ {x, y}) \cup
                {[of |-> x.of \cup y.of, min |-> par_min(x.min, y.min)]}
    /\ UNCHANGED <<par_polymer, par_pending, par_best>>
    /\ UNCHANGED <<vars05react, vars05reacts>>
    /\ OthersSame("05")

\* Every task has run and every result is combined: min returns, line 33.
ParFinish ==
    /\ par_best = -1
    /\ par_pending = {}
    /\ Cardinality(par_pool) <= 1
    /\ par_best' = IF par_pool = {} THEN Len(par_polymer)
                   ELSE (CHOOSE x \in par_pool : TRUE).min
    /\ UNCHANGED <<par_polymer, par_pending, par_pool>>
    /\ UNCHANGED <<vars05react, vars05reacts>>
    /\ OthersSame("05")

NextPart2 == MapTask \/ Combine \/ ParFinish

SpecPart2 == InitPart2 /\ [][NextPart2]_vars

InitReacts ==
    /\ b1 \in 0..ByteMax
    /\ b2 \in 0..ByteMax
    /\ reacts_result = "none"
    /\ polymer_string = <<>> /\ polymer = <<>> /\ react_pc = "off"
    /\ react_result = <<>> /\ par_polymer = <<>> /\ par_pending = {}
    /\ par_pool = {} /\ par_best = -1
    /\ OthersOff("05")

CallReacts ==
    /\ reacts_result = "none"
    /\ reacts_result' = IF reacts(b1, b2) THEN "true" ELSE "false"
    /\ UNCHANGED <<b1, b2>>
    /\ UNCHANGED <<vars05react, vars05par>>
    /\ OthersSame("05")

NextReacts == CallReacts

SpecReacts == InitReacts /\ [][NextReacts]_vars

(* ---- the claims about aoc05 ---- *)

LettersInAlphabet == 26

\* x and y are the same ASCII letter, one in upper and one in lower case.
SameLetterOppositeCase(x, y) ==
    \E k \in 1..LettersInAlphabet : {x, y} = {Upper(k), Lower(k)}

\* The reduction by a single pass with a stack: a unit that is the opposite
\* case of the top of the stack removes it, any other unit is pushed.
RECURSIVE StackReduce(_, _)
StackReduce(p, stack) ==
    IF p = <<>> THEN stack
    ELSE IF stack # <<>> /\ SameLetterOppositeCase(stack[Len(stack)], Head(p))
    THEN StackReduce(Tail(p), SubSeq(stack, 1, Len(stack) - 1))
    ELSE StackReduce(Tail(p), Append(stack, Head(p)))

\* C5: whatever the order in which the tasks of part2 run and their results
\* are combined, the tasks share no result (every partial result is the
\* minimum over the tasks it covers, and no task is covered twice), and
\* `best` is the minimum over the letters of the reacted length of the
\* polymer without both cases of that letter.
C5_ParallelMin ==
    LET len(b) == Len(StackReduce(
                      SelectSeq(par_polymer,
                                LAMBDA u : u # b /\ u # b + CaseGap), <<>>))
        least(S) == CHOOSE n \in {len(b) : b \in S} :
                       \A b \in S : n <= len(b)
    IN /\ \A x \in par_pool : x.min = least(x.of)
       /\ \A x, y \in par_pool : x # y => x.of \cap y.of = {}
       /\ par_best # -1 =>
            par_best = least({Upper(k) : k \in 1..NumLetters})

\* part2 has its result, and the best letter is not the first one.
C5_Witness ==
    /\ par_best # -1
    /\ par_best < Len(react(replace_unit(replace_unit(par_polymer, Upper(1)),
                                         Lower(1))))

\* C7: for a polymer of ASCII letters react returns the inert form: no two
\* adjacent units of the result are the same letter in opposite case, the
\* result is what the reduction with a stack gives, and reacting it again
\* changes nothing.
C7_ReactInert ==
    react_pc = "done" =>
      /\ \A i \in 1..(Len(react_result) - 1) :
           ~SameLetterOppositeCase(react_result[i], react_result[i + 1])
      /\ react_result = StackReduce(polymer_string, <<>>)
      /\ react(react_result) = react_result

\* react has returned after removing two pairs of units or more.
C7_Witness ==
    /\ react_pc = "done"
    /\ Len(polymer_string) - Len(react_result) >= 4
    /\ react_result # <<>>

\* C8: reacts(b1, b2) is true exactly when b1 and b2 are the same ASCII letter
\* in opposite case, for all bytes b1 and b2.
C8_ReactsIffOppositeCase ==
    reacts_result # "none" =>
      (reacts_result = "true" <=> SameLetterOppositeCase(b1, b2))


-----------------------------------------------------------------------------
(***************************************************************************)
(* aoc04: the iterator that turns the events of a guard into the ranges of *)
(* minutes slept.  Of a DateTime the model keeps the hour and the minute,  *)
(* compared in that order; an Option is <<>> (None) or <<v>> (Some(v)).    *)
(***************************************************************************)

MaxEvents == 3    \* events of a guard after the first StartShift
MaxHour == 1      \* hours 0..MaxHour
MaxMinute == 2    \* minutes 0..MaxMinute

EventKinds == {"StartShift", "Asleep", "WakeUp"}

DateTimes == [hour : 0..MaxHour, minute : 0..MaxMinute]

\* The derived Ord of DateTime: the fields in order of declaration.
DateTimeLeq(d, e) ==
    d.hour < e.hour \/ (d.hour = e.hour /\ d.minute <= e.minute)

\* The lists main hands to MinutesAsleepIter::new: the events of one guard,
\* sorted by time (line 38), the first one the StartShift that named the
\* guard (lines 42-50).
GuardEvents ==
    {es \in UNION {[1..n -> [datetime : DateTimes, kind : EventKinds]] :
                      n \in 1..(MaxEvents + 1)} :
        /\ es[1].kind = "StartShift"
        /\ \A i \in 1..(Len(es) - 1) :
             DateTimeLeq(es[i].datetime, es[i + 1].datetime)}

\* MinutesAsleepIter::next, lines 147-175: the loop from the events `rest`
\* with fell_asleep = fa.  `item` is <<>> (None), <<"Ok", range>> or
\* <<"Err", message>>.
RECURSIVE iter_next(_, _)
iter_next(rest, fa) ==
    IF rest = <<>>
    THEN IF fa # <<>>
         THEN [events |-> rest, fell_asleep |-> fa,
               item |-> <<"Err", "found sleep event without wake up">>]
         ELSE [events |-> rest, fell_asleep |-> fa, item |-> <<>>]
    ELSE LET ev == Head(rest)
         IN CASE ev.kind = "StartShift" -> iter_next(Tail(rest), fa)
              [] ev.kind = "Asleep" ->
                   iter_next(Tail(rest), <<ev.datetime.minute>>)
              [] ev.kind = "WakeUp" ->
                   IF fa = <<>>
                   THEN [events |-> Tail(rest), fell_asleep |-> <<>>,
                         item |-> <<"Err", "found wakeup without sleep">>]
                   ELSE IF ev.datetime.minute < fa[1]
                   THEN [events |-> Tail(rest), fell_asleep |-> <<>>,
                         item |-> <<"Err", "found wakeup before sleep">>]
                   ELSE [events |-> Tail(rest), fell_asleep |-> <<>>,
                         item |-> <<"Ok", [start |-> fa[1],
                                           end |-> ev.datetime.minute]>>]

\* MinutesAsleepIter::new, line 139, on the events of a guard.
Init04 ==
    /\ events \in GuardEvents
    /\ iter_events = events
    /\ fell_asleep = <<>>
    /\ pc04 = "iterating"
    /\ yielded = <<>>
    /\ error04 = ""
    /\ OthersOff("04")

\* main, lines 57-61: next() yields a range.
NextRange ==
    /\ pc04 = "iterating"
    /\ LET r == iter_next(iter_events, fell_asleep)
       IN /\ r.item # <<>> /\ r.item[1] = "Ok"
          /\ iter_events' = r.events
          /\ fell_asleep' = r.fell_asleep
          /\ yielded' = Append(yielded, r.item[2])
    /\ UNCHANGED <<events, pc04, error04>>
    /\ OthersSame("04")

\* main, line 58: next() yields an error, which `?` returns from main.
NextError ==
    /\ pc04 = "iterating"
    /\ LET r == iter_next(iter_events, fell_asleep)
       IN /\ r.item # <<>> /\ r.item[1] = "Err"
          /\ iter_events' = r.events
          /\ fell_asleep' = r.fell_asleep
          /\ error04' = r.item[2]
    /\ pc04' = "error"
    /\ UNCHANGED <<events, yielded>>
    /\ OthersSame("04")

\* main, line 57: next() returns None and the loop ends.
NextNone ==
    /\ pc04 = "iterating"
    /\ LET r == iter_next(iter_events, fell_asleep)
       IN /\ r.item = <<>>
          /\ iter_events' = r.events
          /\ fell_asleep' = r.fell_asleep
    /\ pc04' = "ended"
    /\ UNCHANGED <<events, yielded, error04>>
    /\ OthersSame("04")

Next04 == NextRange \/ NextError \/ NextNone

SpecAoc04 == Init04 /\ [][Next04]_vars

(* ---- the claim about aoc04 ---- *)

AsleepAt == {i \in 1..Len(events) : events[i].kind = "Asleep"}
WakeUpAt == {i \in 1..Len(events) : events[i].kind = "WakeUp"}

\* The range an Asleep event stands for: from its minute to the minute of
\* the next WakeUp event.
RangeOfAsleep(i) ==
    LET j == CHOOSE k \in WakeUpAt :
                k > i /\ \A l \in WakeUpAt : l > i => k <= l
    IN [start |-> events[i].datetime.minute,
        end |-> events[j].datetime.minute]

\* C6: every Asleep event is paired with the next WakeUp event: it either
\* contributes exactly one yielded range [asleep minute, wake-up minute) or
\* the iterator yields an error; and a WakeUp with no pending Asleep, or with
\* a minute before the sleep minute, yields an error.  So when the iteration
\* ends without an error, the yielded ranges are those of the Asleep events,
\* one each and in order, and every WakeUp closes an Asleep.
C6_EveryAsleepPaired ==
    pc04 = "ended" =>
      /\ \A i \in AsleepAt : \E k \in WakeUpAt : k > i
      /\ yielded = [n \in 1..Cardinality(AsleepAt) |->
                       RangeOfAsleep(Ascending(AsleepAt)[n])]
      /\ \A j \in WakeUpAt :
           \E i \in AsleepAt :
             /\ i < j
             /\ \A k \in WakeUpAt : ~(i < k /\ k < j)
             /\ events[i].datetime.minute <= events[j].datetime.minute


-----------------------------------------------------------------------------
(***************************************************************************)
(* aoc22: the shortest time to the target of a cave.  A Coordinate is      *)
(* <<x, y>>; an Equip is its position in the enum (Torch 0, Gear 1,        *)
(* Neither 2), which is its derived order; a queue entry is                *)
(* <<time, x, y, equip>>, ordered as the tuple (Time, Coordinate, Equip).  *)
(***************************************************************************)

MaxCells == 6      \* regions of the largest cave
MaxSide == 3       \* regions along the longest side of a cave
SwitchMinutes == 7 \* shortest_time: time + 7
MoveMinutes == 1   \* shortest_time: time + 1

Torch == 0
Gear == 1
Neither == 2
Equips == {Torch, Gear, Neither}
RegionTypes == {"Rocky", "Wet", "Narrow"}

\* Region::can_equip with (Narrow, Gear) allowed in place of (Narrow, Torch).
can_equip_narrow_gear(typ, equip) ==
    \/ typ = "Rocky" /\ equip \in {Torch, Gear}
    \/ typ = "Wet" /\ equip \in {Gear, Neither}
    \/ typ = "Narrow" /\ equip \in {Gear, Neither}

can_equip(typ, equip) ==
    \/ typ = "Rocky" /\ equip \in {Torch, Gear}
    \/ typ = "Wet" /\ equip \in {Gear, Neither}
    \/ typ = "Narrow" /\ equip \in {Torch, Neither}

\* The caves: every bound of at most MaxCells regions and MaxSide regions a
\* side, every target inside it, every type for every region.
Caves ==
    UNION {
      UNION {
        {[bound |-> <<bx, by>>, target |-> tg, regions |-> rs] :
            tg \in (0..bx) \X (0..by),
            rs \in [(0..bx) \X (0..by) -> RegionTypes]} :
        by \in {b \in 0..(MaxSide - 1) : (bx + 1) * (b + 1) <= MaxCells}} :
      bx \in 0..(MaxSide - 1)}

\* The order of Reverse<(Time, Coordinate, Equip)> in the BinaryHeap: the
\* entry popped first is the least tuple.
EntryLess(e, f) ==
    \E i \in 1..4 : e[i] < f[i] /\ \A j \in 1..(i - 1) : e[j] = f[j]

\* BinaryHeap::push that queues the entry last.
queue_push_last(q, e) == Append(q, e)

\* BinaryHeap::push; the queue is kept in the order pop returns it.
RECURSIVE queue_push(_, _)
queue_push(q, e) ==
    IF q = <<>> THEN <<e>>
    ELSE IF EntryLess(e, Head(q)) THEN <<e>> \o q
    ELSE <<Head(q)>> \o queue_push(Tail(q), e)

RECURSIVE queue_push_all(_, _)
queue_push_all(q, es) ==
    IF es = <<>> THEN q ELSE queue_push_all(queue_push(q, Head(es)), Tail(es))

\* shortest_time, lines 66-70: the entries pushed for the tools.
equip_entries(cv, time, c) ==
    LET try(e) == IF can_equip(cv.regions[c], e)
                  THEN <<<<time + SwitchMinutes, c[1], c[2], e>>>> ELSE <<>>
    IN try(Torch) \o try(Gear) \o try(Neither)

\* shortest_time, lines 72-86: the entries pushed for the neighbors.
neighbor_entries(cv, time, c, equip) ==
    LET try(d) ==
          IF (d[1] < 0 /\ c[1] = 0) \/ (d[2] < 0 /\ c[2] = 0) THEN <<>>
          ELSE LET x == c[1] + d[1]
                   y == c[2] + d[2]
               IN IF x > cv.bound[1] \/ y > cv.bound[2] THEN <<>>
                  ELSE IF can_equip(cv.regions[<<x, y>>], equip)
                  THEN <<<<time + MoveMinutes, x, y, equip>>>>
                  ELSE <<>>
    IN try(<<0, -1>>) \o try(<<1, 0>>) \o try(<<0, 1>>) \o try(<<-1, 0>>)

\* shortest_time, lines 52-55.
Init22 ==
    /\ cave \in Caves
    /\ queue = <<<<0, 0, 0, Torch>>>>
    /\ best = [k \in {} |-> 0]
    /\ result22 = <<>>
    /\ OthersOff("22")

\* lines 56-59: the entry popped is no better than the one recorded.
PopSkip ==
    /\ result22 = <<>> /\ queue # <<>>
    /\ LET time == Head(queue)[1]
           key == <<<<Head(queue)[2], Head(queue)[3]>>, Head(queue)[4]>>
       IN key \in DOMAIN best /\ best[key] <= time
    /\ queue' = Tail(queue)
    /\ UNCHANGED <<cave, best, result22>>
    /\ OthersSame("22")

\* lines 56-63: the entry popped is the target with the torch.
PopTarget ==
    /\ result22 = <<>> /\ queue # <<>>
    /\ LET time == Head(queue)[1]
           c == <<Head(queue)[2], Head(queue)[3]>>
           equip == Head(queue)[4]
           key == <<c, equip>>
       IN /\ ~(key \in DOMAIN best /\ best[key] <= time)
          /\ c = cave.target /\ equip = Torch
          /\ best' = [k \in DOMAIN best \cup {key} |->
                         IF k = key THEN time ELSE best[k]]
          /\ result22' = <<"Ok", time>>
    /\ queue' = Tail(queue)
    /\ UNCHANGED cave
    /\ OthersSame("22")

\* lines 56-86: the entry popped is recorded and its successors pushed.
PopExpand ==
    /\ result22 = <<>> /\ queue # <<>>
    /\ LET time == Head(queue)[1]
           c == <<Head(queue)[2], Head(queue)[3]>>
           equip == Head(queue)[4]
           key == <<c, equip>>
       IN /\ ~(key \in DOMAIN best /\ best[key] <= time)
          /\ ~(c = cave.target /\ equip = Torch)
          /\ best' = [k \in DOMAIN best \cup {key} |->
                         IF k = key THEN time ELSE best[k]]
          /\ queue' = queue_push_all(Tail(queue),
                         equip_entries(cave, time, c)
                         \o neighbor_entries(cave, time, c, equip))
    /\ UNCHANGED <<cave, result22>>
    /\ OthersSame("22")

\* line 88: the queue is empty.
NoPath ==
    /\ result22 = <<>> /\ queue = <<>>
    /\ result22' = <<"Err">>
    /\ UNCHANGED <<cave, queue, best>>
    /\ OthersSame("22")

Next22 == PopSkip \/ PopTarget \/ PopExpand \/ NoPath

SpecAoc22 == Init22 /\ [][Next22]_vars

(* ---- the claim about aoc22 ---- *)

Cells == DOMAIN cave.regions
Nodes == Cells \X Equips

Adjacent(c, d) ==
    \/ c[1] = d[1] /\ (c[2] = d[2] + 1 \/ d[2] = c[2] + 1)
    \/ c[2] = d[2] /\ (c[1] = d[1] + 1 \/ d[1] = c[1] + 1)

\* The tools the puzzle permits in a region: not Neither in a rocky one, not
\* the torch in a wet one, not the climbing gear in a narrow one.
Permitted(c, e) ==
    \/ cave.regions[c] = "Rocky" /\ e # Neither
    \/ cave.regions[c] = "Wet" /\ e # Torch
    \/ cave.regions[c] = "Narrow" /\ e # Gear

\* <<node, total time>> after one more action from p: a move to an adjacent
\* region in which the tool in hand is permitted, or a switch to another tool
\* that is permitted in the region.
AfterOneAction(p) ==
    {<<<<d, p[1][2]>>, p[2] + MoveMinutes>> :
        d \in {c \in Cells : Adjacent(p[1][1], c) /\ Permitted(c, p[1][2])}}
    \cup
    {<<<<p[1][1], e>>, p[2] + SwitchMinutes>> :
        e \in {f \in Equips : f # p[1][2] /\ Permitted(p[1][1], f)}}

\* Of the pairs <<node, time>> those with the least time of their node.
LeastPerNode(P) == {p \in P : \A q \in P : q[1] = p[1] => p[2] <= q[2]}

\* The least total time of the sequences of at most k actions that begin in
\* P, for every node such a sequence ends in.
RECURSIVE LeastTimes(_, _)
LeastTimes(P, k) ==
    IF k = 0 THEN P
    ELSE LeastTimes(LeastPerNode(P \cup UNION {AfterOneAction(p) : p \in P}),
                    k - 1)

\* C4: shortest_time returns the least total time over all sequences of moves
\* and tool switches from (0,0) with the torch to the target with the torch,
\* and the error when there is no such sequence.
C4_ShortestTime ==
    result22 # <<>> =>
      LET least == {p[2] : p \in
                      {q \in LeastTimes({<<<<<<0, 0>>, Torch>>, 0>>},
                                        Cardinality(Nodes)) :
                         q[1] = <<cave.target, Torch>>}}
      IN IF result22[1] = "Ok" THEN least = {result22[2]} ELSE least = {}

\* A time is returned that no sequence without a tool switch achieves.
C4_Witness ==
    /\ result22 # <<>>
    /\ result22[1] = "Ok"
    /\ result22[2] > SwitchMinutes + MoveMinutes

\* The error is returned.
C4_WitnessNoPath == result22 = <<"Err">>


-----------------------------------------------------------------------------
(***************************************************************************)
(* aoc16: deriving the numbering of the sixteen ops from samples.  The     *)
(* registers are <<r1, r2, r3, r4>>; a Result is <<"Ok", value>> or        *)
(* <<"Err">>; a parsed line of numbers is a record of i64 values.          *)
(***************************************************************************)

MaxShift == 1        \* the unknown number of op k is (k + s) % 16, s <= MaxShift
OpCount == 16        \* the ops, and the rounds of derive
MaxOpNumber == 15    \* OpNumber::new: n <= 15
U8Modulus == 256     \* OpNumber::new: n as u8
RegisterCount == 4   \* Registers([i64; 4])

\* The bitwise and / or of two naturals (& and | on i64).
RECURSIVE BitAnd(_, _)
BitAnd(x, y) ==
    IF x = 0 \/ y = 0 THEN 0
    ELSE (x % 2) * (y % 2) + 2 * BitAnd(x \div 2, y \div 2)

RECURSIVE BitOr(_, _)
BitOr(x, y) ==
    IF x = 0 THEN y
    ELSE IF y = 0 THEN x
    ELSE (IF x % 2 = 1 \/ y % 2 = 1 THEN 1 ELSE 0)
         + 2 * BitOr(x \div 2, y \div 2)

\* OpNumber::new
OpNumber_new(n) == IF n <= MaxOpNumber THEN <<"Ok", n % U8Modulus>> ELSE <<"Err">>

\* Register::from_number
from_number(n) == IF n \in 0..(RegisterCount - 1) THEN <<"Ok", n>> ELSE <<"Err">>

\* Registers::get, the register being its number.
get(regs, r) == regs[r + 1]

\* UnknownInstruction::to_op: the kinds whose a, and whose b, is a register.
KindsWithRegisterA == (0..(OpCount - 1)) \ {9, 10, 13}
KindsWithRegisterB == {0, 2, 4, 6, 10, 12, 13, 15}

to_op(inst, opnum) ==
    IF \/ opnum \in KindsWithRegisterA /\ from_number(inst.a)[1] = "Err"
       \/ opnum \in KindsWithRegisterB /\ from_number(inst.b)[1] = "Err"
       \/ from_number(inst.c)[1] = "Err"
    THEN <<"Err">>
    ELSE <<"Ok", [output |-> inst.c, kind |-> opnum, a |-> inst.a, b |-> inst.b]>>

\* Op::exec
exec(op, regs) ==
    LET a == op.a
        b == op.b
        gt(x, y) == IF x > y THEN 1 ELSE 0
        eq(x, y) == IF x = y THEN 1 ELSE 0
        value ==
          CASE op.kind = 0 -> get(regs, a) + get(regs, b)
            [] op.kind = 1 -> get(regs, a) + b
            [] op.kind = 2 -> get(regs, a) * get(regs, b)
            [] op.kind = 3 -> get(regs, a) * b
            [] op.kind = 4 -> BitAnd(get(regs, a), get(regs, b))
            [] op.kind = 5 -> BitAnd(get(regs, a), b)
            [] op.kind = 6 -> BitOr(get(regs, a), get(regs, b))
            [] op.kind = 7 -> BitOr(get(regs, a), b)
            [] op.kind = 8 -> get(regs, a)
            [] op.kind = 9 -> a
            [] op.kind = 10 -> gt(a, get(regs, b))
            [] op.kind = 11 -> gt(get(regs, a), b)
            [] op.kind = 12 -> gt(get(regs, a), get(regs, b))
            [] op.kind = 13 -> eq(a, get(regs, b))
            [] op.kind = 14 -> eq(get(regs, a), b)
            [] op.kind = 15 -> eq(get(regs, a), get(regs, b))
    IN [regs EXCEPT ![op.output + 1] = value]

\* Sample::similar_to, from known op number i on.
RECURSIVE similar_to(_, _, _)
similar_to(s, i, similar) ==
    IF i >= OpCount THEN <<"Ok", similar>>
    ELSE LET op == to_op(s.instruction, i)
         IN IF op[1] = "Err" THEN <<"Err">>
            ELSE similar_to(s, i + 1,
                     IF exec(op[2], s.before) = s.after
                     THEN Append(similar, i) ELSE similar)

\* derive, lines 208-223: the loop over the samples from sample j on.  m holds
\* unknown_to_known, known_mapped and whether similar_to returned an error.
RECURSIVE derive_scan(_, _, _)
derive_scan(ss, j, m) ==
    IF j > Len(ss) THEN m
    ELSE IF ss[j].instruction.op \in DOMAIN m.unknown_to_known
    THEN derive_scan(ss, j + 1, m)
    ELSE LET r == similar_to(ss[j], 0, <<>>)
         IN IF r[1] = "Err" THEN [m EXCEPT !.failed = TRUE]
            ELSE LET similar == SelectSeq(r[2],
                                   LAMBDA n : n \notin m.known_mapped)
                 IN IF Len(similar) = 1
                    THEN [unknown_to_known |->
                            [u \in DOMAIN m.unknown_to_known
                                   \cup {ss[j].instruction.op} |->
                               IF u = ss[j].instruction.op THEN similar[1]
                               ELSE m.unknown_to_known[u]],
                          known_mapped |-> m.known_mapped \cup {similar[1]},
                          failed |-> FALSE]
                    ELSE derive_scan(ss, j + 1, m)

(* The inputs.  A sample text is the three lines of a sample: the registers *)
(* before, the four numbers of the instruction, the registers after.        *)

\* For every op a sample of it that is similar to no other op, ...
UniqueObservations ==
    <<[before |-> <<0, 0, 0, 1>>, a |-> 3, b |-> 3, c |-> 0],
      [before |-> <<0, 0, 0, 1>>, a |-> 3, b |-> 1, c |-> 1],
      [before |-> <<0, 0, 3, 0>>, a |-> 2, b |-> 2, c |-> 2],
      [before |-> <<0, 0, 0, 1>>, a |-> 3, b |-> 2, c |-> 3],
      [before |-> <<0, 2, 0, 3>>, a |-> 3, b |-> 1, c |-> 0],
      [before |-> <<0, 0, 0, 3>>, a |-> 3, b |-> 2, c |-> 1],
      [before |-> <<0, 2, 3, 0>>, a |-> 1, b |-> 2, c |-> 2],
      [before |-> <<0, 0, 2, 0>>, a |-> 2, b |-> 3, c |-> 3],
      [before |-> <<1, 0, 2, 0>>, a |-> 0, b |-> 2, c |-> 0],
      [before |-> <<0, 0, 0, 0>>, a |-> 2, b |-> 0, c |-> 1],
      [before |-> <<0, 0, 2, 0>>, a |-> 3, b |-> 2, c |-> 2],
      [before |-> <<0, 3, 2, 0>>, a |-> 2, b |-> 1, c |-> 3],
      [before |-> <<2, 0, 0, 1>>, a |-> 0, b |-> 3, c |-> 0],
      [before |-> <<0, 0, 0, 2>>, a |-> 2, b |-> 3, c |-> 1],
      [before |-> <<2, 0, 3, 0>>, a |-> 0, b |-> 2, c |-> 2],
      [before |-> <<2, 0, 0, 2>>, a |-> 0, b |-> 3, c |-> 3]>>
\* ... and one that is similar to one other op as well.
AmbiguousObservations ==
    <<[before |-> <<0, 0, 0, 1>>, a |-> 0, b |-> 3, c |-> 0],
      [before |-> <<0, 0, 0, 0>>, a |-> 0, b |-> 2, c |-> 1],
      [before |-> <<0, 0, 0, 2>>, a |-> 3, b |-> 3, c |-> 2],
      [before |-> <<0, 0, 0, 2>>, a |-> 3, b |-> 2, c |-> 3],
      [before |-> <<0, 0, 2, 3>>, a |-> 3, b |-> 2, c |-> 0],
      [before |-> <<0, 0, 2, 3>>, a |-> 3, b |-> 2, c |-> 1],
      [before |-> <<0, 0, 0, 1>>, a |-> 0, b |-> 3, c |-> 2],
      [before |-> <<0, 0, 0, 0>>, a |-> 0, b |-> 2, c |-> 3],
      [before |-> <<0, 0, 2, 1>>, a |-> 3, b |-> 2, c |-> 0],
      [before |-> <<0, 0, 0, 2>>, a |-> 3, b |-> 3, c |-> 1],
      [before |-> <<0, 0, 0, 0>>, a |-> 2, b |-> 2, c |-> 2],
      [before |-> <<0, 0, 3, 0>>, a |-> 2, b |-> 2, c |-> 3],
      [before |-> <<0, 0, 2, 0>>, a |-> 2, b |-> 3, c |-> 0],
      [before |-> <<0, 0, 0, 0>>, a |-> 0, b |-> 2, c |-> 1],
      [before |-> <<0, 0, 3, 2>>, a |-> 3, b |-> 2, c |-> 2],
      [before |-> <<0, 0, 0, 0>>, a |-> 0, b |-> 2, c |-> 3]>>

\* The text of a sample of known op k, its op number written as w.
SampleText(k, w, obs) ==
    [before |-> obs.before, op |-> w, a |-> obs.a, b |-> obs.b, c |-> obs.c,
     after |-> exec([output |-> obs.c, kind |-> k, a |-> obs.a, b |-> obs.b],
                    obs.before)]

\* One sample of every op, op k numbered (k + s) % 16, the ops of `amb`
\* sampled ambiguously, in ascending or descending order of k.
BaseTexts(s, amb, ascending) ==
    [i \in 1..OpCount |->
        LET k == IF ascending THEN i - 1 ELSE OpCount - i
        IN SampleText(k, (k + s) % OpCount,
                      IF k \in amb THEN AmbiguousObservations[k + 1]
                      ELSE UniqueObservations[k + 1])]

\* A list of sample texts and the lists that differ from it in one sample:
\* its op number written 256 lower (the same u8), or written -1; the sample
\* left out; its `a` no register number; or a copy of it, numbered -1, put
\* in front.
Variants(ts) ==
    {ts}
    \cup {[ts EXCEPT ![j].op = @ - U8Modulus] : j \in 1..Len(ts)}
    \cup {[ts EXCEPT ![j].op = -1] : j \in 1..Len(ts)}
    \cup {SubSeq(ts, 1, j - 1) \o SubSeq(ts, j + 1, Len(ts)) : j \in 1..Len(ts)}
    \cup {[ts EXCEPT ![j].a = RegisterCount] : j \in 1..Len(ts)}
    \cup {<<[ts[j] EXCEPT !.op = -1]>> \o ts : j \in 1..Len(ts)}

SampleTexts ==
    UNION {Variants(BaseTexts(s, amb, asc)) :
             s \in 0..MaxShift,
             amb \in {{}} \cup {{k} : k \in 0..(OpCount - 1)},
             asc \in BOOLEAN}

\* Samples::from_str with UnknownInstruction::from_str: the parsed samples,
\* or the error of an op number that OpNumber::new refuses.
parse_samples(ts) ==
    IF \E j \in 1..Len(ts) : OpNumber_new(ts[j].op)[1] = "Err" THEN <<"Err">>
    ELSE <<"Ok", [j \in 1..Len(ts) |->
                    [before |-> ts[j].before, after |-> ts[j].after,
                     instruction |-> [op |-> OpNumber_new(ts[j].op)[2],
                                      a |-> ts[j].a, b |-> ts[j].b,
                                      c |-> ts[j].c]]]>>

\* main, line 24, and derive, line 206: the samples the parser accepted.
Init16 ==
    /\ samples \in {parse_samples(ts)[2] :
                      ts \in {x \in SampleTexts : parse_samples(x)[1] = "Ok"}}
    /\ unknown_to_known = [u \in {} |-> 0]
    /\ known_mapped = {}
    /\ round16 = 0
    /\ result16 = <<>>
    /\ OthersOff("16")

\* derive, lines 207-224: one iteration of `for _ in 0..16`.
DeriveRound ==
    /\ result16 = <<>> /\ round16 < OpCount
    /\ LET m == derive_scan(samples, 1,
                    [unknown_to_known |-> unknown_to_known,
                     known_mapped |-> known_mapped, failed |-> FALSE])
       IN /\ ~m.failed
          /\ unknown_to_known' = m.unknown_to_known
          /\ known_mapped' = m.known_mapped
    /\ round16' = round16 + 1
    /\ UNCHANGED <<samples, result16>>
    /\ OthersSame("16")

\* derive, line 214: similar_to returns an error, and so does derive.
DeriveError ==
    /\ result16 = <<>> /\ round16 < OpCount
    /\ derive_scan(samples, 1,
            [unknown_to_known |-> unknown_to_known,
             known_mapped |-> known_mapped, failed |-> FALSE]).failed
    /\ result16' = <<"Err", "similar_to">>
    /\ UNCHANGED <<samples, unknown_to_known, known_mapped, round16>>
    /\ OthersSame("16")

\* derive, lines 225-226.
DeriveNoMapping ==
    /\ result16 = <<>> /\ round16 = OpCount
    /\ Cardinality(DOMAIN unknown_to_known) # OpCount
    /\ result16' = <<"Err", "samples do no lead to a unique mapping">>
    /\ UNCHANGED <<samples, unknown_to_known, known_mapped, round16>>
    /\ OthersSame("16")

\* derive, lines 227-228.
DeriveOk ==
    /\ result16 = <<>> /\ round16 = OpCount
    /\ Cardinality(DOMAIN unknown_to_known) = OpCount
    /\ result16' = <<"Ok", unknown_to_known>>
    /\ UNCHANGED <<samples, unknown_to_known, known_mapped, round16>>
    /\ OthersSame("16")

Next16 == DeriveRound \/ DeriveError \/ DeriveNoMapping \/ DeriveOk

SpecAoc16 == Init16 /\ [][Next16]_vars

(* ---- the claim about aoc16 ---- *)

\* C2: a map that derive returns has exactly 16 entries, maps no two unknown
\* op numbers to the same known op, and has an entry for every op number 0
\* through 15 of the unknown encoding.
C2_DeriveBijection ==
    (result16 # <<>> /\ result16[1] = "Ok") =>
      LET map == result16[2]
      IN /\ Cardinality(DOMAIN map) = OpCount
         /\ \A u, v \in DOMAIN map : u # v => map[u] # map[v]
         /\ \A n \in 0..MaxOpNumber : n \in DOMAIN map

-----------------------------------------------------------------------------
(***************************************************************************)
(* aoc15: the caves of elves and goblins.  A Coordinate is <<x, y>>; the   *)
(* grid maps every coordinate up to max to "Wall" or "Open"; units maps    *)
(* the coordinates that hold a unit to the unit.  An Option is <<>> or     *)
(* <<value>>.                                                              *)
(***************************************************************************)

MaxArea15 == 6       \* cells of a cave of the distance inputs
MaxSide15 == 3       \* cells a side of a cave of the distance inputs
MaxBlockers == 2     \* units of a cave of the distance inputs
InitialAttack == 3   \* Unit::from_str: attack
InitialHp == 200     \* Unit::from_str: hp

\* Unit::from_str
Unit_from_str(kind) == [attack |-> InitialAttack, hp |-> InitialHp, kind |-> kind]

\* The order of Coordinate: by y, then by x.
CoordLess(c, e) == c[2] < e[2] \/ (c[2] = e[2] /\ c[1] < e[1])

\* Coordinate::neighbors: up, left, right, down, inside the bound.
Coordinate_neighbors(c, max) ==
    (IF c[2] >= 1 THEN <<<<c[1], c[2] - 1>>>> ELSE <<>>)
    \o (IF c[1] >= 1 THEN <<<<c[1] - 1, c[2]>>>> ELSE <<>>)
    \o (IF c[1] + 1 <= max[1] THEN <<<<c[1] + 1, c[2]>>>> ELSE <<>>)
    \o (IF c[2] + 1 <= max[2] THEN <<<<c[1], c[2] + 1>>>> ELSE <<>>)

\* Caves::is_open
is_open(cv, c) == c \notin DOMAIN cv.units /\ cv.grid[c] = "Open"

\* Caves::neighbors
neighbors(cv, c) ==
    SelectSeq(Coordinate_neighbors(c, cv.max), LAMBDA n : is_open(cv, n))

\* distances, lines 154-167: the body of `for neighbor in self.neighbors(c)`
\* for the neighbors ns, in order.  st is [d, todo, todo_set, visited].
RECURSIVE distances_neighbors(_, _, _)
distances_neighbors(st, c, ns) ==
    IF ns = <<>> THEN st
    ELSE LET neighbor == Head(ns)
             queued == IF neighbor \in st.todo_set THEN st
                       ELSE [st EXCEPT !.todo = Append(@, neighbor),
                                       !.todo_set = @ \cup {neighbor}]
             candidate_dist == 1 + (IF c \in DOMAIN st.d THEN st.d[c] ELSE 0)
             relaxed ==
               IF neighbor \notin DOMAIN st.d \/ candidate_dist < st.d[neighbor]
               THEN [queued EXCEPT !.d =
                       [n \in DOMAIN st.d \cup {neighbor} |->
                          IF n = neighbor THEN candidate_dist ELSE st.d[n]]]
               ELSE queued
         IN IF neighbor \in st.visited
            THEN distances_neighbors(st, c, Tail(ns))
            ELSE distances_neighbors(relaxed, c, Tail(ns))

\* distances with the queue used as a stack: push_front for push_back.
distances_pop_lifo(cv, st) ==
    LET c == Head(st.todo)
        popped == [st EXCEPT !.todo = Tail(@),
                             !.visited = @ \cup {c},
                             !.todo_set = @ \ {c}]
        after == distances_neighbors([popped EXCEPT !.todo = <<>>], c,
                                     neighbors(cv, c))
    IN [after EXCEPT !.todo = Reverse(@) \o popped.todo]

\* distances, lines 151-168: one iteration of `while let Some(c) = pop_front`.
distances_pop(cv, st) ==
    LET c == Head(st.todo)
        popped == [st EXCEPT !.todo = Tail(@),
                             !.visited = @ \cup {c},
                             !.todo_set = @ \ {c}]
    IN distances_neighbors(popped, c, neighbors(cv, c))

\* distances, lines 143-150.
distances_start(origin) ==
    [d |-> [c \in {origin} |-> 0], todo |-> <<origin>>, todo_set |-> {},
     visited |-> {}]

\* distances
RECURSIVE distances_loop(_, _)
distances_loop(cv, st) ==
    IF st.todo = <<>> THEN st.d ELSE distances_loop(cv, distances_pop(cv, st))

distances(cv, origin) == distances_loop(cv, distances_start(origin))

\* The caves of at most MaxArea15 cells and MaxSide15 cells a side, with at
\* most MaxBlockers units, all on open cells.
Coordinates(max) == (0..max[1]) \X (0..max[2])

CavesWithin(max) ==
    UNION {
      {[grid |-> g, units |-> [c \in us |-> Unit_from_str("Goblin")],
        max |-> max] :
          us \in {u \in SUBSET {c \in Coordinates(max) : g[c] = "Open"} :
                    Cardinality(u) <= MaxBlockers}} :
      g \in [Coordinates(max) -> {"Wall", "Open"}]}

DistanceCaves(side, area) ==
    UNION {CavesWithin(max) :
             max \in {m \in (0..(side - 1)) \X (0..(side - 1)) :
                        (m[1] + 1) * (m[2] + 1) <= area}}

\* distances on a cave, from the cell of a unit (nearest_target) or from an
\* open cell (nearest_step).
InitDistances ==
    /\ caves15 \in DistanceCaves(MaxSide15, MaxArea15)
    /\ dist_origin \in {c \in Coordinates(caves15.max) :
                          caves15.grid[c] = "Open"}
    /\ dist_d = distances_start(dist_origin).d
    /\ dist_todo = distances_start(dist_origin).todo
    /\ dist_todo_set = {}
    /\ dist_visited = {}
    /\ dist_pc = "loop"
    /\ step_pc = "off" /\ step_coords = <<>> /\ any_move = FALSE /\ rounds = 0
    /\ unit_ids = <<>> /\ turns = <<>>
    /\ OthersOff("15")

DistState == [d |-> dist_d, todo |-> dist_todo, todo_set |-> dist_todo_set,
              visited |-> dist_visited]

\* distances, lines 151-168.
DistPop ==
    /\ dist_pc = "loop" /\ dist_todo # <<>>
    /\ LET st == distances_pop(caves15, DistState)
       IN /\ dist_d' = st.d
          /\ dist_todo' = st.todo
          /\ dist_todo_set' = st.todo_set
          /\ dist_visited' = st.visited
    /\ UNCHANGED <<caves15, dist_origin, dist_pc, vars15step>>
    /\ OthersSame("15")

\* distances, lines 151 and 169: the queue is empty and d is returned.
DistReturn ==
    /\ dist_pc = "loop" /\ dist_todo = <<>>
    /\ dist_pc' = "returned"
    /\ UNCHANGED <<caves15, dist_origin, dist_d, dist_todo, dist_todo_set,
                   dist_visited, vars15step>>
    /\ OthersSame("15")

NextDistances == DistPop \/ DistReturn

SpecDistances == InitDistances /\ [][NextDistances]_vars

(* Caves::outcome and Caves::step. *)

StepWidth == 3       \* columns of a cave of the combat inputs
StepHeight == 2      \* rows of a cave of the combat inputs
StepUnits == 4       \* units of a cave of the combat inputs
Limit == 500         \* outcome: LIMIT

\* The coordinates of S in the order of Coordinate, as iterating a BTreeMap
\* or a BTreeSet yields them.
RECURSIVE SortCoords(_)
SortCoords(S) ==
    IF S = {} THEN <<>>
    ELSE LET least == CHOOSE c \in S : \A e \in S \ {c} : CoordLess(c, e)
         IN <<least>> \o SortCoords(S \ {least})

\* The order of the keys given to Iterator::min_by_key: a key is <<dist>> or
\* <<hp, coordinate>>, a tuple compared field by field.
key_less(k, l) ==
    \/ k[1] < l[1]
    \/ k[1] = l[1] /\ Len(k) > 1 /\ CoordLess(k[2], l[2])

\* Iterator::min_by_key on the items cs, keys[i] the key of cs[i]: the first
\* of the least items, or None.
min_by_key(cs, keys) ==
    LET least == {i \in 1..Len(cs) :
                    \A j \in 1..Len(cs) : ~key_less(keys[j], keys[i])}
    IN IF cs = <<>> THEN <<>>
       ELSE <<cs[CHOOSE i \in least : \A j \in least : i <= j]>>

\* Unit::is_enemy
is_enemy(u, candidate) == u.kind # candidate.kind

\* Caves::any_enemies
any_enemies(cv, c) ==
    \E e \in DOMAIN cv.units : is_enemy(cv.units[c], cv.units[e])

\* Caves::best_attack_unit
best_attack_unit(cv, c) ==
    LET enemies == SelectSeq(Coordinate_neighbors(c, cv.max),
                             LAMBDA n : /\ n \in DOMAIN cv.units
                                        /\ is_enemy(cv.units[c], cv.units[n]))
    IN min_by_key(enemies,
                  [i \in 1..Len(enemies) |->
                     <<cv.units[enemies[i]].hp, enemies[i]>>])

\* Caves::attack with Unit::absorb: the units after the attack.
attack(cv, attacker, victim) ==
    LET power == cv.units[attacker].attack
        hp == IF cv.units[victim].hp > power
              THEN cv.units[victim].hp - power ELSE 0
    IN IF hp = 0
       THEN [cv EXCEPT !.units = [c \in DOMAIN cv.units \ {victim} |-> cv.units[c]]]
       ELSE [cv EXCEPT !.units[victim].hp = hp]

\* Caves::targets
targets(cv, origin) ==
    UNION {Range(neighbors(cv, c)) :
             c \in {e \in DOMAIN cv.units :
                      is_enemy(cv.units[origin], cv.units[e])}}

\* Caves::nearest_target
nearest_target(cv, c) ==
    LET dists == distances(cv, c)
        reached == SelectSeq(SortCoords(targets(cv, c)),
                             LAMBDA t : t \in DOMAIN dists)
    IN min_by_key(reached, [i \in 1..Len(reached) |-> <<dists[reached[i]]>>])

\* Caves::nearest_step
nearest_step(cv, c, target) ==
    LET dists == distances(cv, target)
        reached == SelectSeq(neighbors(cv, c), LAMBDA n : n \in DOMAIN dists)
    IN min_by_key(reached, [i \in 1..Len(reached) |-> <<dists[reached[i]]>>])

\* Caves::next_step
next_step(cv, c) ==
    LET t == nearest_target(cv, c)
    IN IF t = <<>> THEN <<>> ELSE nearest_step(cv, c, t[1])

\* step, lines 108-109: the unit of c is put on nextc.
move_unit(cv, c, nextc) ==
    [cv EXCEPT !.units = [e \in (DOMAIN cv.units \ {c}) \cup {nextc} |->
                            IF e = nextc THEN cv.units[c] ELSE cv.units[e]]]

\* Caves::from_str: the caves of at most StepWidth columns and StepHeight
\* rows with one to StepUnits units.
ParsedCaves(max) ==
    {[grid |-> [c \in Coordinates(max) |->
                  IF text[c] = "#" THEN "Wall" ELSE "Open"],
      units |-> [c \in {e \in Coordinates(max) : text[e] \in {"E", "G"}} |->
                   Unit_from_str(IF text[c] = "E" THEN "Elf" ELSE "Goblin")],
      max |-> max] :
        text \in {x \in [Coordinates(max) -> {"#", ".", "E", "G"}] :
                    Cardinality({c \in Coordinates(max) : x[c] \in {"E", "G"}})
                      \in 1..StepUnits}}

StepCaves(columns, rows) ==
    UNION {ParsedCaves(max) : max \in (0..(columns - 1)) \X (0..(rows - 1))}

DistIdle ==
    /\ dist_origin = <<>> /\ dist_d = <<>> /\ dist_todo = <<>>
    /\ dist_todo_set = {} /\ dist_visited = {} /\ dist_pc = "off"

\* main, lines 21-23: outcome is called on the parsed caves.  unit_ids names
\* the units by their place in the order of their coordinates.
InitOutcome ==
    /\ caves15 \in StepCaves(StepWidth, StepHeight)
    /\ step_pc = "begin"
    /\ step_coords = <<>>
    /\ any_move = FALSE
    /\ rounds = 0
    /\ unit_ids = [c \in DOMAIN caves15.units |->
                     Cardinality({e \in DOMAIN caves15.units : CoordLess(e, c)})]
    /\ turns = <<>>
    /\ DistIdle
    /\ OthersOff("15")

\* A turn of the unit `id`: where it began and ended, the unit it attacked
\* (an Option) and whether that unit died.
Turn(id, from, to, attacked, died) ==
    [id |-> id, from |-> from, to |-> to, attacked |-> attacked, died |-> died]

\* unit_ids after the units of cv have replaced those of caves15, the unit
\* of c having gone to nextc.
ids_after(cv, c, nextc) ==
    [e \in DOMAIN cv.units |-> IF e = nextc THEN unit_ids[c] ELSE unit_ids[e]]

\* outcome, line 61, and step, lines 87-88.
StepBegin ==
    /\ step_pc = "begin"
    /\ any_move' = FALSE
    /\ step_coords' = SortCoords(DOMAIN caves15.units)
    /\ turns' = <<>>
    /\ step_pc' = "loop"
    /\ UNCHANGED <<caves15, rounds, unit_ids, vars15dist>>
    /\ OthersSame("15")

\* step, lines 90-92: no unit is on the coordinate any more.
TurnSkip ==
    /\ step_pc = "loop" /\ step_coords # <<>>
    /\ Head(step_coords) \notin DOMAIN caves15.units
    /\ step_coords' = Tail(step_coords)
    /\ UNCHANGED <<caves15, step_pc, any_move, rounds, unit_ids, turns,
                   vars15dist>>
    /\ OthersSame("15")

\* step, lines 93-95, and outcome, lines 62-65: no enemy is left.
TurnNoEnemies ==
    /\ step_pc = "loop" /\ step_coords # <<>>
    /\ Head(step_coords) \in DOMAIN caves15.units
    /\ ~any_enemies(caves15, Head(step_coords))
    /\ step_pc' = "outcome"
    /\ UNCHANGED <<caves15, step_coords, any_move, rounds, unit_ids, turns,
                   vars15dist>>
    /\ OthersSame("15")

\* step, lines 96-100: an enemy is in range.
TurnAttack ==
    /\ step_pc = "loop" /\ step_coords # <<>>
    /\ LET c == Head(step_coords)
       IN /\ c \in DOMAIN caves15.units
          /\ any_enemies(caves15, c)
          /\ best_attack_unit(caves15, c) # <<>>
          /\ LET victim == best_attack_unit(caves15, c)[1]
                 cv == attack(caves15, c, victim)
             IN /\ caves15' = cv
                /\ unit_ids' = ids_after(cv, c, c)
                /\ turns' = Append(turns,
                                Turn(unit_ids[c], c, c, <<unit_ids[victim]>>,
                                     victim \notin DOMAIN cv.units))
    /\ any_move' = TRUE
    /\ step_coords' = Tail(step_coords)
    /\ UNCHANGED <<step_pc, rounds, vars15dist>>
    /\ OthersSame("15")

\* step, lines 102-105: no enemy is in range and none can be reached.
TurnStay ==
    /\ step_pc = "loop" /\ step_coords # <<>>
    /\ LET c == Head(step_coords)
       IN /\ c \in DOMAIN caves15.units
          /\ any_enemies(caves15, c)
          /\ best_attack_unit(caves15, c) = <<>>
          /\ next_step(caves15, c) = <<>>
          /\ turns' = Append(turns, Turn(unit_ids[c], c, c, <<>>, FALSE))
    /\ step_coords' = Tail(step_coords)
    /\ UNCHANGED <<caves15, step_pc, any_move, rounds, unit_ids, vars15dist>>
    /\ OthersSame("15")

\* step, lines 102-113: the unit moves, and attacks if an enemy is in range.
TurnMove ==
    /\ step_pc = "loop" /\ step_coords # <<>>
    /\ LET c == Head(step_coords)
       IN /\ c \in DOMAIN caves15.units
          /\ any_enemies(caves15, c)
          /\ best_attack_unit(caves15, c) = <<>>
          /\ next_step(caves15, c) # <<>>
          /\ LET nextc == next_step(caves15, c)[1]
                 moved == move_unit(caves15, c, nextc)
                 victim == best_attack_unit(moved, nextc)
                 cv == IF victim = <<>> THEN moved
                       ELSE attack(moved, nextc, victim[1])
             IN /\ caves15' = cv
                /\ unit_ids' = ids_after(cv, c, nextc)
                /\ turns' = Append(turns,
                                Turn(unit_ids[c], c, nextc,
                                     IF victim = <<>> THEN <<>>
                                     ELSE <<unit_ids[victim[1]]>>,
                                     victim # <<>>
                                       /\ victim[1] \notin DOMAIN cv.units))
    /\ any_move' = TRUE
    /\ step_coords' = Tail(step_coords)
    /\ UNCHANGED <<step_pc, rounds, vars15dist>>
    /\ OthersSame("15")

\* step, line 114, and outcome, lines 60-67: step returns any_move.
StepReturn ==
    /\ step_pc = "loop" /\ step_coords = <<>>
    /\ IF ~any_move THEN step_pc' = "outcome" /\ rounds' = rounds
       ELSE IF rounds + 1 < Limit
       THEN step_pc' = "begin" /\ rounds' = rounds + 1
       ELSE step_pc' = "no outcome" /\ rounds' = rounds
    /\ UNCHANGED <<caves15, step_coords, any_move, unit_ids, turns, vars15dist>>
    /\ OthersSame("15")

NextOutcome ==
    \/ StepBegin \/ TurnSkip \/ TurnNoEnemies \/ TurnAttack \/ TurnStay
    \/ TurnMove \/ StepReturn

SpecOutcome == InitOutcome /\ [][NextOutcome]_vars

(* ---- the claims about aoc15 ---- *)

\* The cells at most k steps from the cells of F, every step to an adjacent
\* cell that is open and holds no unit, with the number of steps: pairs
\* <<cell, steps>>, the least number for every cell.
RECURSIVE PathLengths(_, _, _)
PathLengths(F, seen, k) ==
    LET fresh == {c \in Coordinates(caves15.max) :
                    /\ c \notin seen
                    /\ caves15.grid[c] = "Open" /\ c \notin DOMAIN caves15.units
                    /\ \E f \in F :
                         (IF c[1] > f[1] THEN c[1] - f[1] ELSE f[1] - c[1])
                         + (IF c[2] > f[2] THEN c[2] - f[2] ELSE f[2] - c[2]) = 1}
    IN IF fresh = {} THEN {}
       ELSE {<<c, k>> : c \in fresh}
            \cup PathLengths(fresh, seen \cup fresh, k + 1)

\* C12: distances(origin) maps the origin to 0 and every cell reachable from
\* the origin through open cells that hold no unit to the length of a
\* shortest such path, and has no entry for any other cell.
C12_Distances ==
    dist_pc = "returned" =>
      LET paths == {<<dist_origin, 0>>}
                   \cup PathLengths({dist_origin}, {dist_origin}, 1)
      IN /\ DOMAIN dist_d = {p[1] : p \in paths}
         /\ \A p \in paths : dist_d[p[1]] = p[2]

\* distances has returned a map in which a cell is farther from the origin
\* than the number of rows and columns between them: the shortest path goes
\* around a wall or a unit.
C12_Witness ==
    /\ dist_pc = "returned"
    /\ \E c \in DOMAIN dist_d :
         dist_d[c] > (IF c[1] > dist_origin[1] THEN c[1] - dist_origin[1]
                      ELSE dist_origin[1] - c[1])
                     + (IF c[2] > dist_origin[2] THEN c[2] - dist_origin[2]
                        ELSE dist_origin[2] - c[2])
    /\ DOMAIN caves15.units # {}

\* C17: in one call of step every unit takes at most one turn, in which it
\* moves at most one cell and attacks at most once, and a unit killed during
\* the call takes no turn after its death.
C17_OneTurnEach ==
    /\ \A i, j \in 1..Len(turns) : i # j => turns[i].id # turns[j].id
    /\ \A i \in 1..Len(turns) :
         turns[i].to \in {turns[i].from}
                         \cup Range(Coordinate_neighbors(turns[i].from,
                                                         caves15.max))
    /\ \A i, j \in 1..Len(turns) :
         (i < j /\ turns[i].died) => turns[i].attacked # <<turns[j].id>>

-----------------------------------------------------------------------------
(***************************************************************************)
(* aoc18: the lumber collection area.  acres[y + 1][x + 1] is the acre at  *)
(* column x of row y.                                                      *)
(***************************************************************************)

MaxArea18 == 9       \* acres of an input
MaxSide18 == 3       \* acres a side of an input
MaxMinutes18 == 2    \* calls of step
GrowThreshold == 3   \* step_cell: count >= 3

Acres == {"Open", "Trees", "Lumberyard"}

\* Area::width, Area::height
width(ac) == Len(ac[1])
height(ac) == Len(ac)

saturating_sub(n, k) == IF n >= k THEN n - k ELSE 0

\* Area::neighbors: the acres that f is folded over.
neighbors18(ac, ox, oy) ==
    {<<x, y>> \in (saturating_sub(ox, 1)..(ox + 1))
                  \X (saturating_sub(oy, 1)..(oy + 1)) :
        /\ ~(x = ox /\ y = oy)
        /\ ~(x >= width(ac) \/ y >= height(ac))}

\* Area::neighbors with the closures of step_cell that count an acre kind.
count_neighbors(ac, ox, oy, kind) ==
    Cardinality({n \in neighbors18(ac, ox, oy) : ac[n[2] + 1][n[1] + 1] = kind})

\* step_cell without the copy of line 101: the acre of `new` is left as it is
\* unless the acre changes.
step_cell_without_copy(ac, x, y, new) ==
    LET acre == ac[y + 1][x + 1]
    IN CASE acre = "Open" ->
              IF count_neighbors(ac, x, y, "Trees") >= GrowThreshold
              THEN [new EXCEPT ![y + 1][x + 1] = "Trees"] ELSE new
         [] acre = "Trees" ->
              IF count_neighbors(ac, x, y, "Lumberyard") >= GrowThreshold
              THEN [new EXCEPT ![y + 1][x + 1] = "Lumberyard"] ELSE new
         [] acre = "Lumberyard" ->
              IF ~(count_neighbors(ac, x, y, "Lumberyard") >= 1)
                 \/ ~(count_neighbors(ac, x, y, "Trees") >= 1)
              THEN [new EXCEPT ![y + 1][x + 1] = "Open"] ELSE new

\* Area::step_cell: `new` after the call.
step_cell(ac, x, y, new) ==
    LET acre == ac[y + 1][x + 1]
        copied == [new EXCEPT ![y + 1][x + 1] = acre]
    IN CASE acre = "Open" ->
              IF count_neighbors(ac, x, y, "Trees") >= GrowThreshold
              THEN [copied EXCEPT ![y + 1][x + 1] = "Trees"] ELSE copied
         [] acre = "Trees" ->
              IF count_neighbors(ac, x, y, "Lumberyard") >= GrowThreshold
              THEN [copied EXCEPT ![y + 1][x + 1] = "Lumberyard"] ELSE copied
         [] acre = "Lumberyard" ->
              IF ~(count_neighbors(ac, x, y, "Lumberyard") >= 1)
                 \/ ~(count_neighbors(ac, x, y, "Trees") >= 1)
              THEN [copied EXCEPT ![y + 1][x + 1] = "Open"] ELSE copied

\* step, lines 84-85: the (x, y) in the order of the two loops.
loop_cells(ac) ==
    [i \in 1..(width(ac) * height(ac)) |->
        <<(i - 1) % width(ac), (i - 1) \div width(ac)>>]

\* Area::from_str: the areas of at most MaxArea18 acres and MaxSide18 acres a
\* side; acres2 is all open.
Init18 ==
    /\ \E xlen \in 1..MaxSide18 :
         \E ylen \in {n \in 1..MaxSide18 : xlen * n <= MaxArea18} :
           /\ acres \in [1..ylen -> [1..xlen -> Acres]]
           /\ acres2 = [y \in 1..ylen |-> [x \in 1..xlen |-> "Open"]]
    /\ new18 = <<>>
    /\ cells18 = <<>>
    /\ minutes18 = 0
    /\ pc18 = "ready"
    /\ OthersOff("18")

\* main, line 20, and step, line 83.
StepTake ==
    /\ pc18 = "ready" /\ minutes18 < MaxMinutes18
    /\ new18' = acres2
    /\ acres2' = <<>>
    /\ cells18' = loop_cells(acres)
    /\ pc18' = "cells"
    /\ UNCHANGED <<acres, minutes18>>
    /\ OthersSame("18")

\* step, line 86.
StepCell ==
    /\ pc18 = "cells" /\ cells18 # <<>>
    /\ new18' = step_cell(acres, Head(cells18)[1], Head(cells18)[2], new18)
    /\ cells18' = Tail(cells18)
    /\ UNCHANGED <<acres, acres2, minutes18, pc18>>
    /\ OthersSame("18")

\* step, lines 89-90.
StepSwap ==
    /\ pc18 = "cells" /\ cells18 = <<>>
    /\ acres2' = acres
    /\ acres' = new18
    /\ new18' = <<>>
    /\ minutes18' = minutes18 + 1
    /\ pc18' = "ready"
    /\ UNCHANGED cells18
    /\ OthersSame("18")

Next18 == StepTake \/ StepCell \/ StepSwap

SpecAoc18 == Init18 /\ [][Next18]_vars

(* ---- the claim about aoc18 ---- *)

\* The acres next to (x, y) in the grid g, up to eight of them.
Around(g, x, y) ==
    ({<<x + dx, y + dy>> : dx \in {-1, 0, 1}, dy \in {-1, 0, 1}}
       \cap ((0..(Len(g[1]) - 1)) \X (0..(Len(g) - 1)))) \ {<<x, y>>}

\* The rule of the automaton for the acre (x, y) of the grid g.
Rule(g, x, y) ==
    LET near(kind) == Cardinality({n \in Around(g, x, y) :
                                     g[n[2] + 1][n[1] + 1] = kind})
        acre == g[y + 1][x + 1]
    IN CASE acre = "Open" -> IF near("Trees") >= 3 THEN "Trees" ELSE "Open"
         [] acre = "Trees" ->
              IF near("Lumberyard") >= 3 THEN "Lumberyard" ELSE "Trees"
         [] acre = "Lumberyard" ->
              IF near("Lumberyard") >= 1 /\ near("Trees") >= 1
              THEN "Lumberyard" ELSE "Open"

\* C13: step is a synchronous step of the automaton: after it every acre
\* holds the value the rule gives for the grid before the step (which is now
\* acres2), whatever acres2 held before, and the dimensions are unchanged.
C13_SynchronousStep ==
    (pc18 = "ready" /\ minutes18 > 0) =>
      /\ Len(acres) = Len(acres2)
      /\ \A y \in 1..Len(acres) :
           /\ Len(acres[y]) = Len(acres2[y])
           /\ \A x \in 1..Len(acres[y]) :
                acres[y][x] = Rule(acres2, x - 1, y - 1)

\* A second step has been made, on a scratch buffer that held a grid with
\* trees and lumberyards, and the middle acre of a 3 x 3 area has changed.
C13_Witness ==
    /\ pc18 = "ready" /\ minutes18 = 2
    /\ Len(acres) = 3 /\ Len(acres[1]) = 3
    /\ acres[2][2] # acres2[2][2]
    /\ \E y \in 1..3 : \E x \in 1..3 : acres[y][x] = "Lumberyard"

-----------------------------------------------------------------------------
(***************************************************************************)
(* aoc06: the location closest to a coordinate.  A Coordinate is <<x, y>>. *)
(* The coordinates are small, so that no distance leaves the range of i32. *)
(***************************************************************************)

MaxX06 == 2          \* x of a coordinate: 0..MaxX06 (y is 0 or 1)
MaxLocations == 3    \* locations of an input

Abs(n) == IF n < 0 THEN -n ELSE n

\* Coordinate::distance
distance(c, other) == Abs(c[1] - other[1]) + Abs(c[2] - other[2])

\* closest_location, lines 119-124, without the `unique = true` of line 123.
closest_visit_without_reset(c, loc, st) ==
    IF distance(loc, c) = distance(st.min, c) THEN [st EXCEPT !.unique = FALSE]
    ELSE IF distance(loc, c) < distance(st.min, c)
    THEN [min |-> loc, unique |-> st.unique]
    ELSE st

\* closest_location, lines 119-124: the body of the loop for loc, on
\* st = [min, unique].
closest_visit(c, loc, st) ==
    IF distance(loc, c) = distance(st.min, c) THEN [st EXCEPT !.unique = FALSE]
    ELSE IF distance(loc, c) < distance(st.min, c)
    THEN [min |-> loc, unique |-> TRUE]
    ELSE st

Coordinates06 == (0..MaxX06) \X (0..1)

\* main, lines 13-21: the list of locations is not empty; closest_location
\* is called on it with a coordinate (line 117).
Init06 ==
    /\ locations06 \in UNION {[1..n -> Coordinates06] : n \in 1..MaxLocations}
    /\ c06 \in Coordinates06
    /\ min06 = locations06[1]
    /\ unique06 = TRUE
    /\ rest06 = Tail(locations06)
    /\ result06 = <<>>
    /\ OthersOff("06")

\* closest_location, lines 118-125.
ClosestVisit ==
    /\ result06 = <<>> /\ rest06 # <<>>
    /\ LET st == closest_visit(c06, Head(rest06),
                               [min |-> min06, unique |-> unique06])
       IN min06' = st.min /\ unique06' = st.unique
    /\ rest06' = Tail(rest06)
    /\ UNCHANGED <<locations06, c06, result06>>
    /\ OthersSame("06")

\* closest_location, lines 126-127: None.
ClosestNone ==
    /\ result06 = <<>> /\ rest06 = <<>>
    /\ ~unique06
    /\ result06' = <<<<>>>>
    /\ UNCHANGED <<locations06, c06, min06, unique06, rest06>>
    /\ OthersSame("06")

\* closest_location, lines 128-129: Some(min).
ClosestSome ==
    /\ result06 = <<>> /\ rest06 = <<>>
    /\ unique06
    /\ result06' = <<<<min06>>>>
    /\ UNCHANGED <<locations06, c06, min06, unique06, rest06>>
    /\ OthersSame("06")

Next06 == ClosestVisit \/ ClosestNone \/ ClosestSome

SpecAoc06 == Init06 /\ [][Next06]_vars

(* ---- the claim about aoc06 ---- *)

\* The entries of the list of locations at the least distance from c.
Nearest ==
    {i \in 1..Len(locations06) :
       \A j \in 1..Len(locations06) :
         distance(locations06[i], c06) <= distance(locations06[j], c06)}

\* C14: closest_location(c) returns Some(l) exactly when l is the only entry
\* of the list of locations at the least distance from c, and None when two
\* entries or more are at the least distance.
C14_ClosestLocation ==
    result06 # <<>> =>
      IF Cardinality(Nearest) = 1
      THEN result06[1] = <<locations06[CHOOSE i \in Nearest : TRUE]>>
      ELSE result06[1] = <<>>

\* Some(l) was returned for a list whose first two entries are at the same
\* distance and whose last entry is nearer.
C14_Witness ==
    /\ result06 # <<>> /\ result06[1] # <<>>
    /\ Len(locations06) = 3
    /\ distance(locations06[1], c06) = distance(locations06[2], c06)
    /\ result06[1][1] = locations06[3]

\* None was returned for a list in which the nearest entries are apart.
C14_WitnessNone ==
    /\ result06 # <<>> /\ result06[1] = <<>>
    /\ Len(locations06) = 3
    /\ Nearest = {1, 3}

-----------------------------------------------------------------------------
(***************************************************************************)
(* aoc21: the virtual machine with six registers and a bound instruction   *)
(* pointer.  The registers are <<r0, .., r5>>, a Register is its number,   *)
(* an Op is [name, a, b, output], ops[i + 1] is instruction i.             *)
(***************************************************************************)

MaxSteps21 == 48     \* instructions executed
WatchedIp == 28      \* exec_part2: self.ip == 28
R5 == 5              \* Register::R5

\* Registers::get, Registers::set
get21(regs, r) == regs[r + 1]
set21(regs, r, v) == [regs EXCEPT ![r + 1] = v]

\* Op::exec
exec21(op, regs) ==
    LET a == op.a
        b == op.b
        value ==
          CASE op.name = "addr" -> get21(regs, a) + get21(regs, b)
            [] op.name = "addi" -> get21(regs, a) + b
            [] op.name = "mulr" -> get21(regs, a) * get21(regs, b)
            [] op.name = "muli" -> get21(regs, a) * b
            [] op.name = "banr" -> BitAnd(get21(regs, a), get21(regs, b))
            [] op.name = "bani" -> BitAnd(get21(regs, a), b)
            [] op.name = "borr" -> BitOr(get21(regs, a), get21(regs, b))
            [] op.name = "bori" -> BitOr(get21(regs, a), b)
            [] op.name = "setr" -> get21(regs, a)
            [] op.name = "seti" -> a
            [] op.name = "gtir" -> IF a > get21(regs, b) THEN 1 ELSE 0
            [] op.name = "gtri" -> IF get21(regs, a) > b THEN 1 ELSE 0
            [] op.name = "gtrr" ->
                 IF get21(regs, a) > get21(regs, b) THEN 1 ELSE 0
            [] op.name = "eqir" -> IF a = get21(regs, b) THEN 1 ELSE 0
            [] op.name = "eqri" -> IF get21(regs, a) = b THEN 1 ELSE 0
            [] op.name = "eqrr" ->
                 IF get21(regs, a) = get21(regs, b) THEN 1 ELSE 0
    IN set21(regs, op.output, value)

\* exec_part2, lines 72-74: one instruction; the registers and the next ip.
exec_instruction(prog, regs, ip) ==
    LET bound == set21(regs, prog.ipreg, ip)
        after == exec21(prog.ops[ip + 1], bound)
    IN [registers |-> after, ip |-> get21(after, prog.ipreg) + 1]

\* exec_part2, lines 76-81, with the value recorded before `seen` is asked.
record_r5_first(cycle, seen, r5) ==
    IF r5 \in seen
    THEN [cycle |-> Append(cycle, r5), seen |-> seen,
          returned |-> <<Append(cycle, r5)[Len(cycle) + 1]>>]
    ELSE [cycle |-> Append(cycle, r5), seen |-> seen \cup {r5},
          returned |-> <<>>]

\* exec_part2, lines 76-81: r5 is recorded, or the last value of cycle is
\* returned (an Option).
record_r5(cycle, seen, r5) ==
    IF r5 \in seen
    THEN [cycle |-> cycle, seen |-> seen, returned |-> <<cycle[Len(cycle)]>>]
    ELSE [cycle |-> Append(cycle, r5), seen |-> seen \cup {r5},
          returned |-> <<>>]

Op(name, a, b, output) == [name |-> name, a |-> a, b |-> b, output |-> output]

\* The instructions that change R5 in the programs below.
R5Ops ==
    {Op("addi", 5, 1, 5), Op("addi", 5, 3, 5), Op("muli", 5, 2, 5),
     Op("bani", 5, 3, 5), Op("bani", 5, 7, 5), Op("bori", 5, 4, 5),
     Op("seti", 2, 0, 5)}

\* The ends of the programs below, from instruction 28 on: a comparison of
\* R5 with R0 that halts when they are equal and goes back to instruction 26
\* otherwise; a jump back to instruction 26; and no instruction.
ProgramEnds ==
    {<<Op("eqrr", 5, 0, 3), Op("addr", 3, 1, 1), Op("seti", 25, 0, 1)>>,
     <<Op("seti", 25, 0, 1)>>,
     <<>>}

\* Program::from_str: the programs `#ip 1` that jump to instruction 26 or 27,
\* change R5 there and arrive at instruction 28.
Programs21 ==
    {[ipreg |-> 1,
      ops |-> <<Op("seti", jump, 0, 1)>>
              \o [i \in 1..25 |-> Op("seti", 0, 0, 0)]
              \o <<first, second>> \o end] :
        jump \in {25, 26}, first \in R5Ops, second \in R5Ops,
        end \in ProgramEnds}

\* part2, lines 37-42: exec_part2 on a default VM.
Init21 ==
    /\ prog21 \in Programs21
    /\ registers21 = [r \in 1..6 |-> 0]
    /\ ip21 = 0
    /\ cycle21 = <<>>
    /\ seen21 = {}
    /\ result21 = <<>>
    /\ steps21 = 0
    /\ r5_log21 = <<>>
    /\ OthersOff("21")

\* exec_part2, lines 71-83: an iteration after which the loop goes on.
Part2Step ==
    /\ result21 = <<>> /\ steps21 < MaxSteps21
    /\ ip21 < Len(prog21.ops)
    /\ LET vm == exec_instruction(prog21, registers21, ip21)
           rec == record_r5(cycle21, seen21, get21(vm.registers, R5))
       IN /\ registers21' = vm.registers
          /\ ip21' = vm.ip
          /\ IF vm.ip = WatchedIp
             THEN /\ rec.returned = <<>>
                  /\ cycle21' = rec.cycle
                  /\ seen21' = rec.seen
                  /\ r5_log21' = Append(r5_log21, get21(vm.registers, R5))
             ELSE UNCHANGED <<cycle21, seen21, r5_log21>>
    /\ steps21' = steps21 + 1
    /\ UNCHANGED <<prog21, result21>>
    /\ OthersSame("21")

\* exec_part2, lines 71-79: the iteration that returns Ok.
Part2Return ==
    /\ result21 = <<>> /\ steps21 < MaxSteps21
    /\ ip21 < Len(prog21.ops)
    /\ LET vm == exec_instruction(prog21, registers21, ip21)
           rec == record_r5(cycle21, seen21, get21(vm.registers, R5))
       IN /\ vm.ip = WatchedIp
          /\ rec.returned # <<>>
          /\ registers21' = vm.registers
          /\ ip21' = vm.ip
          /\ cycle21' = rec.cycle
          /\ seen21' = rec.seen
          /\ r5_log21' = Append(r5_log21, get21(vm.registers, R5))
          /\ result21' = <<"Ok", rec.returned[1]>>
    /\ steps21' = steps21 + 1
    /\ UNCHANGED prog21
    /\ OthersSame("21")

\* exec_part2, lines 71 and 84: no instruction at ip.
Part2Halt ==
    /\ result21 = <<>>
    /\ ~(ip21 < Len(prog21.ops))
    /\ result21' = <<"Err", "found no cycle">>
    /\ UNCHANGED <<prog21, registers21, ip21, cycle21, seen21, steps21,
                   r5_log21>>
    /\ OthersSame("21")

NextPart2Vm == Part2Step \/ Part2Return \/ Part2Halt

SpecPart2Vm == Init21 /\ [][NextPart2Vm]_vars

(* ---- the claims about aoc21 ---- *)

\* The first position of r5_log21 whose value stood at an earlier position,
\* or 0.
FirstRepeat ==
    LET repeats == {n \in 1..Len(r5_log21) :
                      \E i \in 1..(n - 1) : r5_log21[i] = r5_log21[n]}
    IN IF repeats = {} THEN 0
       ELSE CHOOSE n \in repeats : \A k \in repeats : n <= k

\* C15: exec_part2 records R5 at every arrival of ip at 28, in order, and
\* returns the value recorded last before the first value that repeats an
\* earlier one; if the program halts before a value repeats, it returns the
\* error "found no cycle".
C15_LastBeforeRepeat ==
    /\ result21 = <<>> => (cycle21 = r5_log21 /\ FirstRepeat = 0)
    /\ (result21 # <<>> /\ result21[1] = "Ok") =>
         /\ FirstRepeat = Len(r5_log21)
         /\ cycle21 = SubSeq(r5_log21, 1, FirstRepeat - 1)
         /\ result21[2] = r5_log21[FirstRepeat - 1]
    /\ (result21 # <<>> /\ result21[1] = "Err") =>
         /\ FirstRepeat = 0
         /\ cycle21 = r5_log21
         /\ result21[2] = "found no cycle"
         /\ ip21 >= Len(prog21.ops)

\* The value returned was recorded after two others or more and is not the
\* value that repeated.
C15_Witness ==
    /\ result21 # <<>> /\ result21[1] = "Ok"
    /\ Len(cycle21) >= 3
    /\ result21[2] # r5_log21[Len(r5_log21)]

\* The program halted after values were recorded, none of them twice.
C15_WitnessHalt ==
    /\ result21 # <<>> /\ result21[1] = "Err"
    /\ Len(cycle21) >= 3

(* ---- aoc21: VM::exec, one instruction at a time ---- *)

ExecLen == 4              \* instructions of a program given to exec
Part1R0 == 7224964        \* part1: vm.registers.set(Register::R0, 7224964)

\* exec, lines 56-58, without line 56.
exec_once_unbound(prog, regs, ip) ==
    LET after == exec21(prog.ops[ip + 1], regs)
    IN [registers |-> after, ip |-> get21(after, prog.ipreg) + 1]

\* exec, lines 56-58: one instruction; the registers and the next ip.
exec_once(prog, regs, ip) ==
    LET bound == set21(regs, prog.ipreg, ip)
        after == exec21(prog.ops[ip + 1], bound)
    IN [registers |-> after, ip |-> get21(after, prog.ipreg) + 1]

\* The instructions of the programs below, b the bound register: a counter
\* in R2, a jump forward that grows with the counter, a jump to
\* instruction 1, a skip of two, and two instructions that change R0, one of
\* them reading the bound register.
ExecOps(b) ==
    {Op("addi", 2, 1, 2), Op("mulr", 2, b, b), Op("seti", 0, 0, b),
     Op("addi", b, 2, b), Op("setr", b, 0, 0), Op("addi", 0, 1, 0)}

\* Program::from_str: the programs of ExecLen instructions with `#ip 1` or
\* `#ip 4`.
ExecPrograms ==
    UNION {{[ipreg |-> b, ops |-> ops] :
              ops \in [1..ExecLen -> ExecOps(b)]} : b \in {1, 4}}

\* part1, lines 27-33: exec on a default VM with R0 set.
InitExec ==
    /\ prog21 \in ExecPrograms
    /\ registers21 = set21([r \in 1..6 |-> 0], 0, Part1R0)
    /\ ip21 = 0
    /\ cycle21 = <<>>
    /\ seen21 = {}
    /\ result21 = <<>>
    /\ steps21 = 0
    /\ r5_log21 = <<>>
    /\ OthersOff("21")

\* exec, lines 55-59: one iteration of the loop.
ExecLoop ==
    /\ result21 = <<>> /\ steps21 < MaxSteps21
    /\ ip21 < Len(prog21.ops)
    /\ LET vm == exec_once(prog21, registers21, ip21)
       IN /\ registers21' = vm.registers
          /\ ip21' = vm.ip
    /\ steps21' = steps21 + 1
    /\ UNCHANGED <<prog21, cycle21, seen21, result21, r5_log21>>
    /\ OthersSame("21")

\* exec, lines 55 and 60: no instruction at ip, register 0 is returned.
ExecOk ==
    /\ result21 = <<>>
    /\ ~(ip21 < Len(prog21.ops))
    /\ result21' = <<"Ok", get21(registers21, 0)>>
    /\ UNCHANGED <<prog21, registers21, ip21, cycle21, seen21, steps21,
                   r5_log21>>
    /\ OthersSame("21")

NextExec == ExecLoop \/ ExecOk

SpecExec21 == InitExec /\ [][NextExec]_vars

(* ---- the claim about VM::exec ---- *)

\* What a step of exec does, written from the registers alone: at the index
\* of an instruction every register but the output of the instruction keeps
\* its value, the bound register having taken the value of ip (which an
\* instruction that copies the bound register shows in its output), ip
\* becomes the bound register plus one and nothing is returned; at any other
\* ip register 0 is returned and nothing else changes.
C21_Step ==
    LET b == prog21.ipreg
        op == prog21.ops[ip21 + 1]
        before(r) == IF r = b THEN ip21 ELSE get21(registers21, r)
    IN /\ result21 = <<>>
       /\ prog21' = prog21
       /\ IF ip21 \in 0..(Len(prog21.ops) - 1)
          THEN /\ result21' = <<>>
               /\ \A r \in 0..5 :
                    r # op.output => get21(registers21', r) = before(r)
               /\ (op.name = "setr" /\ op.a = b) =>
                    get21(registers21', op.output) = ip21
               /\ ip21' = get21(registers21', b) + 1
          ELSE /\ result21' = <<"Ok", get21(registers21, 0)>>
               /\ registers21' = registers21
               /\ ip21' = ip21

\* C21: in VM::exec, for every instruction executed the bound register is
\* first set to the instruction pointer, the instruction then changes only
\* its output register, the instruction pointer becomes the bound register
\* plus one, and execution stops exactly when the instruction pointer is not
\* the index of an instruction; the value returned is register 0.
C21_FetchExecute == [][C21_Step]_vars21

\* exec returned after a loop left by a jump beyond the program, with
\* register 0 changed.
C21_Witness ==
    /\ result21 # <<>> /\ result21[1] = "Ok"
    /\ result21[2] # Part1R0
    /\ steps21 >= 4
    /\ ip21 > Len(prog21.ops)
    /\ get21(registers21, 2) >= 2

-----------------------------------------------------------------------------
(***************************************************************************)
(* aoc19: the virtual machine of aoc21 with a shortcut: at instruction 3   *)
(* VM::exec calls VM::fast instead of executing the instruction.           *)
(***************************************************************************)

MaxR2 == 8           \* the number whose divisors the program adds up
FastIp == 3          \* VM::exec: self.ip == 3
FastReturn == 12     \* VM::fast: the instruction pointer it returns

\* Registers::get, Registers::set
get19(regs, r) == regs[r + 1]
set19(regs, r, v) == [regs EXCEPT ![r + 1] = v]

\* Op::exec
exec19(op, regs) ==
    LET a == op.a
        b == op.b
        value ==
          CASE op.name = "addr" -> get19(regs, a) + get19(regs, b)
            [] op.name = "addi" -> get19(regs, a) + b
            [] op.name = "mulr" -> get19(regs, a) * get19(regs, b)
            [] op.name = "muli" -> get19(regs, a) * b
            [] op.name = "banr" -> BitAnd(get19(regs, a), get19(regs, b))
            [] op.name = "bani" -> BitAnd(get19(regs, a), b)
            [] op.name = "borr" -> BitOr(get19(regs, a), get19(regs, b))
            [] op.name = "bori" -> BitOr(get19(regs, a), b)
            [] op.name = "setr" -> get19(regs, a)
            [] op.name = "seti" -> a
            [] op.name = "gtir" -> IF a > get19(regs, b) THEN 1 ELSE 0
            [] op.name = "gtri" -> IF get19(regs, a) > b THEN 1 ELSE 0
            [] op.name = "gtrr" ->
                 IF get19(regs, a) > get19(regs, b) THEN 1 ELSE 0
            [] op.name = "eqir" -> IF a = get19(regs, b) THEN 1 ELSE 0
            [] op.name = "eqri" -> IF get19(regs, a) = b THEN 1 ELSE 0
            [] op.name = "eqrr" ->
                 IF get19(regs, a) = get19(regs, b) THEN 1 ELSE 0
    IN set19(regs, op.output, value)

\* VM::exec, lines 51-53: one instruction; the registers and the next ip.
exec_op(prog, regs, ip) ==
    LET bound == set19(regs, prog.ipreg, ip)
        after == exec19(prog.ops[ip + 1], bound)
    IN [registers |-> after, ip |-> get19(after, prog.ipreg) + 1]

\* VM::fast with the operands of the remainder exchanged.
fast_exchanged(regs) ==
    LET added == IF get19(regs, 4) % get19(regs, 2) = 0
                 THEN set19(regs, 0, get19(regs, 4) + get19(regs, 0))
                 ELSE regs
        r2 == get19(added, 2)
    IN [registers |-> set19(set19(added, 1, r2), 3, 0), ip |-> FastReturn]

\* VM::fast: the registers it leaves and the instruction pointer it returns.
fast(regs) ==
    LET added == IF get19(regs, 2) % get19(regs, 4) = 0
                 THEN set19(regs, 0, get19(regs, 4) + get19(regs, 0))
                 ELSE regs
        r2 == get19(added, 2)
    IN [registers |-> set19(set19(added, 1, r2), 3, 0), ip |-> FastReturn]

\* The program `#ip 5` that adds to R0 the divisors of n: instruction 17
\* sets R2 to n, instructions 1 and 12 to 15 run R4 from 1 to R2, and
\* instructions 2 to 11 are the loop over R1 that VM::fast stands for.
Program19(n) ==
    [ipreg |-> 5,
     ops |-> << Op("addi", 5, 16, 5),
                Op("seti", 1, 0, 4),
                Op("seti", 1, 0, 1),
                Op("mulr", 4, 1, 3),
                Op("eqrr", 3, 2, 3),
                Op("addr", 3, 5, 5),
                Op("addi", 5, 1, 5),
                Op("addr", 4, 0, 0),
                Op("addi", 1, 1, 1),
                Op("gtrr", 1, 2, 3),
                Op("addr", 5, 3, 5),
                Op("seti", 2, 0, 5),
                Op("addi", 4, 1, 4),
                Op("gtrr", 4, 2, 3),
                Op("addr", 3, 5, 5),
                Op("seti", 1, 0, 5),
                Op("mulr", 5, 5, 5),
                Op("seti", n, 0, 2),
                Op("seti", 0, 0, 5) >>]

\* part1 and part2: a default VM, with R0 = 1 in part2.
Init19 ==
    /\ \E n \in 1..MaxR2 : prog19 = Program19(n)
    /\ \E r0 \in {0, 1} : registers19 = [r \in 1..6 |-> IF r = 1 THEN r0 ELSE 0]
    /\ ip19 = 0
    /\ result19 = <<>>
    /\ fast_log19 = <<>>
    /\ OthersOff("19")

\* VM::exec, lines 46-50: at instruction 3, fast.
ExecFast ==
    /\ result19 = <<>>
    /\ ip19 < Len(prog19.ops)
    /\ ip19 = FastIp
    /\ LET vm == fast(registers19)
       IN /\ registers19' = vm.registers
          /\ ip19' = vm.ip
          /\ fast_log19' = [entry |-> registers19,
                            registers |-> vm.registers, ip |-> vm.ip]
    /\ UNCHANGED <<prog19, result19>>
    /\ OthersSame("19")

\* VM::exec, lines 46 and 51-53: any other instruction.
ExecOp ==
    /\ result19 = <<>>
    /\ ip19 < Len(prog19.ops)
    /\ ip19 # FastIp
    /\ LET vm == exec_op(prog19, registers19, ip19)
       IN /\ registers19' = vm.registers
          /\ ip19' = vm.ip
    /\ UNCHANGED <<prog19, result19, fast_log19>>
    /\ OthersSame("19")

\* VM::exec, lines 46 and 55: no instruction at ip.
ExecReturn ==
    /\ result19 = <<>>
    /\ ~(ip19 < Len(prog19.ops))
    /\ result19' = <<"Ok", get19(registers19, 0)>>
    /\ UNCHANGED <<prog19, registers19, ip19, fast_log19>>
    /\ OthersSame("19")

Next19 == ExecFast \/ ExecOp \/ ExecReturn

SpecAoc19 == Init19 /\ [][Next19]_vars

(* ---- the claims about aoc19 ---- *)

\* The instructions from ip on, executed one by one as VM::exec does without
\* the shortcut, until the instruction pointer leaves instructions 3 to 11.
RECURSIVE interpret_loop(_, _, _)
interpret_loop(prog, regs, ip) ==
    IF ip \in FastIp..(FastReturn - 1)
    THEN LET vm == exec_op(prog, regs, ip)
         IN interpret_loop(prog, vm.registers, vm.ip)
    ELSE [registers |-> regs, ip |-> ip]

Exec19_Step ==
    LET b == prog19.ipreg
        op == prog19.ops[ip19 + 1]
        before(r) == IF r = b THEN ip19 ELSE get19(registers19, r)
    IN /\ result19 = <<>>
       /\ IF ip19 \in 0..(Len(prog19.ops) - 1)
          THEN /\ result19' = <<>>
               /\ ip19 # FastIp =>
                    /\ \A r \in 0..5 :
                         r # op.output => get19(registers19', r) = before(r)
                    /\ ip19' = get19(registers19', b) + 1
          ELSE /\ result19' = <<"Ok", get19(registers19, 0)>>
               /\ registers19' = registers19
               /\ ip19' = ip19

Exec19_FetchExecute == [][Exec19_Step]_vars19

-----------------------------------------------------------------------------
(***************************************************************************)
(* aoc13: carts on tracks.  A Coordinate is <<x, y>>, a Cart is            *)
(* [intersections, kind], a map from coordinates is a set of pairs         *)
(* <<coordinate, value>> with one pair per coordinate.  The input is a     *)
(* sequence of lines, each a sequence of characters.                       *)
(***************************************************************************)

RowWidth == 5       \* cells of the straight track
MaxCarts13 == 4     \* carts of an input
MaxTicks13 == 6     \* calls of Transport::step

\* BTreeMap::contains_key, get, remove, insert
contains_key13(map, c) == \E e \in map : e[1] = c
get13(map, c) == (CHOOSE e \in map : e[1] = c)[2]
remove13(map, c) == {e \in map : e[1] # c}
insert13(map, c, v) == remove13(map, c) \cup {<<c, v>>}
keys13(map) == {e[1] : e \in map}

\* Ord for Coordinate: by y, then by x.
CoordLess13(c, e) == c[2] < e[2] \/ (c[2] = e[2] /\ c[1] < e[1])

\* The pairs of a BTreeMap in the order of its keys.
RECURSIVE btree_iter(_)
btree_iter(map) ==
    IF map = {} THEN <<>>
    ELSE LET least == CHOOSE e \in map :
                        \A f \in map \ {e} : CoordLess13(e[1], f[1])
         IN <<least>> \o btree_iter(map \ {least})

\* Coordinate::up, down, left, right: <<"Ok", coordinate>> or <<"Err">>.
up(c) == IF c[2] = 0 THEN <<"Err">> ELSE <<"Ok", <<c[1], c[2] - 1>> >>
down(c) == <<"Ok", <<c[1], c[2] + 1>> >>
left(c) == IF c[1] = 0 THEN <<"Err">> ELSE <<"Ok", <<c[1] - 1, c[2]>> >>
right(c) == <<"Ok", <<c[1] + 1, c[2]>> >>

\* Track::from_str
Track_from_str(s) ==
    CASE s = " " -> "Empty"
      [] s = "|" -> "Vertical"
      [] s = "-" -> "Horizontal"
      [] s = "+" -> "Intersection"
      [] s = "/" -> "CurveForward"
      [] s = "\\" -> "CurveBackward"

\* Cart::from_str
Cart_from_str(s) ==
    [intersections |-> 0,
     kind |-> CASE s = "^" -> "Up"
                [] s = "v" -> "Down"
                [] s = "<" -> "Left"
                [] s = ">" -> "Right"]

\* Cart::initial_track
initial_track(cart) ==
    IF cart.kind \in {"Up", "Down"} THEN "Vertical" ELSE "Horizontal"

\* Cart::direction, turn_left, turn_right, intersection
direction(cart, kind) == [cart EXCEPT !.kind = kind]

turn_left(cart) ==
    [cart EXCEPT !.kind = CASE cart.kind = "Up" -> "Left"
                            [] cart.kind = "Down" -> "Right"
                            [] cart.kind = "Left" -> "Down"
                            [] cart.kind = "Right" -> "Up"
                            [] cart.kind = "Crashed" -> "Crashed"]

turn_right(cart) ==
    [cart EXCEPT !.kind = CASE cart.kind = "Up" -> "Right"
                            [] cart.kind = "Down" -> "Left"
                            [] cart.kind = "Left" -> "Up"
                            [] cart.kind = "Right" -> "Down"
                            [] cart.kind = "Crashed" -> "Crashed"]

intersection(cart) ==
    LET which == cart.intersections % 3
        counted == [cart EXCEPT !.intersections = cart.intersections + 1]
    IN CASE which = 0 -> turn_left(counted)
         [] which = 1 -> counted
         [] which = 2 -> turn_right(counted)

\* Grid::get
Grid_get(grid, c) == IF c \in DOMAIN grid THEN grid[c] ELSE "Empty"

\* Grid::step: <<"Ok", cart, coordinate>> or <<"Err">>.
Grid_step(grid, cart, c) ==
    LET here == Grid_get(grid, c)
        next_coord ==
          CASE here = "Empty" -> <<"Err">>
            [] here # "Empty" /\ cart.kind = "Crashed" -> <<"Ok", c>>
            [] here # "Empty" /\ cart.kind = "Up" ->
                 IF here = "Horizontal" THEN <<"Err">> ELSE up(c)
            [] here # "Empty" /\ cart.kind = "Down" ->
                 IF here = "Horizontal" THEN <<"Err">> ELSE down(c)
            [] here # "Empty" /\ cart.kind = "Left" ->
                 IF here = "Vertical" THEN <<"Err">> ELSE left(c)
            [] here # "Empty" /\ cart.kind = "Right" ->
                 IF here = "Vertical" THEN <<"Err">> ELSE right(c)
    IN IF next_coord[1] = "Err" THEN <<"Err">>
       ELSE LET there == Grid_get(grid, next_coord[2])
                k == cart.kind
                turned ==
                  CASE k = "Crashed" -> cart
                    [] k # "Crashed" /\ there \in {"Vertical", "Horizontal"} ->
                         direction(cart, k)
                    [] k # "Crashed" /\ there = "Intersection" ->
                         intersection(cart)
                    [] k = "Up" /\ there = "CurveForward" ->
                         direction(cart, "Right")
                    [] k = "Up" /\ there = "CurveBackward" ->
                         direction(cart, "Left")
                    [] k = "Down" /\ there = "CurveForward" ->
                         direction(cart, "Left")
                    [] k = "Down" /\ there = "CurveBackward" ->
                         direction(cart, "Right")
                    [] k = "Left" /\ there = "CurveForward" ->
                         direction(cart, "Down")
                    [] k = "Left" /\ there = "CurveBackward" ->
                         direction(cart, "Up")
                    [] k = "Right" /\ there = "CurveForward" ->
                         direction(cart, "Up")
                    [] k = "Right" /\ there = "CurveBackward" ->
                         direction(cart, "Down")
            IN IF there = "Empty" THEN <<"Err">>
               ELSE <<"Ok", turned, next_coord[2]>>

\* Transport::step, lines 118-126: <<carts, crashes>> after the cart has
\* moved onto next_c.
arrive(carts, previous_carts, crashes, next_cart, next_c) ==
    IF contains_key13(previous_carts, next_c) \/ contains_key13(carts, next_c)
    THEN <<remove13(carts, next_c), crashes \cup {next_c}>>
    ELSE <<insert13(carts, next_c, next_cart), crashes>>

\* Transport::uncrashed
uncrashed(carts) ==
    LET pairs == btree_iter({e \in carts : e[2].kind # "Crashed"})
    IN [i \in 1..Len(pairs) |-> pairs[i][1]]

\* Transport::from_str: the tracks and the carts of the lines.
Transport_from_str(lines) ==
    LET cells == {<<x, y>> : x \in 0..(Len(lines[1]) - 1),
                             y \in 0..(Len(lines) - 1)}
        cell(c) == lines[c[2] + 1][c[1] + 1]
        is_cart(c) == cell(c) \in {"<", ">", "^", "v"}
    IN [grid |-> [c \in cells |->
                    IF is_cart(c) THEN initial_track(Cart_from_str(cell(c)))
                    ELSE Track_from_str(cell(c))],
        carts |-> {<<c, Cart_from_str(cell(c))>> : c \in {e \in cells : is_cart(e)}}]

\* The tracks of the inputs: a straight track, a loop and a crossing.
Tracks13 ==
    { << [x \in 1..RowWidth |-> "-"] >>,
      << <<"/", "-", "\\">>, <<"|", " ", "|">>, <<"\\", "-", "/">> >>,
      << <<" ", "|", " ">>, <<"-", "+", "-">>, <<" ", "|", " ">> >> }

\* The inputs: one of the tracks with 1 to MaxCarts13 carts on straight cells.
Inputs13 ==
    UNION {
      LET straight == {c \in (1..Len(track[1])) \X (1..Len(track)) :
                         track[c[2]][c[1]] \in {"-", "|"}}
      IN UNION {
           { [y \in 1..Len(track) |-> [x \in 1..Len(track[1]) |->
                IF <<x, y>> \in S
                THEN (IF track[y][x] = "-"
                      THEN (IF f[<<x, y>>] = 0 THEN ">" ELSE "<")
                      ELSE (IF f[<<x, y>>] = 0 THEN "^" ELSE "v"))
                ELSE track[y][x]]] : f \in [S -> {0, 1}] } :
           S \in {T \in SUBSET straight :
                    Cardinality(T) \in 1..MaxCarts13} } :
      track \in Tracks13 }

\* main, lines 17-23: the transport parsed, with a cart or more.
Init13 ==
    /\ \E lines \in Inputs13 :
         LET transport == Transport_from_str(lines)
         IN /\ grid13 = transport.grid
            /\ carts13 = transport.carts
    /\ previous_carts13 = {}
    /\ snapshot13 = <<>>
    /\ crashes13 = {}
    /\ pc13 = "loop"
    /\ phase13 = 1
    /\ output13 = <<>>
    /\ ticks13 = 0
    /\ move13 = <<>>
    /\ tick_log13 = <<>>
    /\ first_one13 = <<>>
    /\ none_before13 = FALSE
    /\ OthersOff("13")

\* Transport::step, lines 104-109: the carts are taken out of the transport.
TickBegin ==
    /\ pc13 = "loop" /\ ticks13 < MaxTicks13
    /\ crashes13' = {}
    /\ previous_carts13' = carts13
    /\ carts13' = {}
    /\ snapshot13' = btree_iter(carts13)
    /\ pc13' = "step"
    /\ ticks13' = ticks13 + 1
    /\ move13' = <<>>
    /\ tick_log13' = [carts |-> Cardinality(carts13), collisions |-> 0]
    /\ UNCHANGED <<grid13, phase13, output13, first_one13, none_before13>>
    /\ OthersSame("13")

\* Transport::step, lines 110-112: a cart on a coordinate of a crash.
CartSkip ==
    /\ pc13 = "step" /\ snapshot13 # <<>>
    /\ Head(snapshot13)[1] \in crashes13
    /\ snapshot13' = Tail(snapshot13)
    /\ UNCHANGED <<grid13, carts13, previous_carts13, crashes13, pc13,
                   phase13, output13, ticks13, move13, tick_log13,
                   first_one13, none_before13>>
    /\ OthersSame("13")

\* Transport::step, line 114, and main, lines 25 and 33: Grid::step fails.
CartError ==
    /\ pc13 = "step" /\ snapshot13 # <<>>
    /\ Head(snapshot13)[1] \notin crashes13
    /\ Grid_step(grid13, Head(snapshot13)[2], Head(snapshot13)[1]) = <<"Err">>
    /\ output13' = Append(output13, <<"Err">>)
    /\ pc13' = "done"
    /\ UNCHANGED <<grid13, carts13, previous_carts13, snapshot13, crashes13,
                   phase13, ticks13, move13, tick_log13, first_one13,
                   none_before13>>
    /\ OthersSame("13")

\* Transport::step, lines 114-127: a cart moves.  The claims are told
\* whether the cell held a cart that no crash had removed, and whether the
\* cart that moved is on the track afterwards.
CartMove ==
    /\ pc13 = "step" /\ snapshot13 # <<>>
    /\ Head(snapshot13)[1] \notin crashes13
    /\ LET c == Head(snapshot13)[1]
           stepped == Grid_step(grid13, Head(snapshot13)[2], c)
       IN /\ stepped # <<"Err">>
          /\ LET next_cart == stepped[2]
                 next_c == stepped[3]
                 arrived == arrive(carts13, previous_carts13, crashes13,
                                   next_cart, next_c)
                 held == \/ contains_key13(carts13, next_c)
                         \/ /\ contains_key13(previous_carts13, next_c)
                            /\ next_c \notin crashes13
             IN /\ carts13' = arrived[1]
                /\ crashes13' = arrived[2]
                /\ previous_carts13' = remove13(previous_carts13, c)
                /\ move13' = [from |-> c, to |-> next_c, held |-> held,
                              crashed_before |-> next_c \in crashes13,
                              stays |-> contains_key13(arrived[1], next_c)]
                /\ tick_log13' =
                     [tick_log13 EXCEPT !.collisions =
                        @ + (IF held THEN 1 ELSE 0)]
    /\ snapshot13' = Tail(snapshot13)
    /\ UNCHANGED <<grid13, pc13, phase13, output13, ticks13, first_one13,
                   none_before13>>
    /\ OthersSame("13")

\* What the claims keep of the end of a tick.
TickEnds ==
    /\ pc13 = "step" /\ snapshot13 = <<>>
    /\ first_one13' =
         IF first_one13 = <<>> /\ ~none_before13 /\ Cardinality(carts13) = 1
         THEN <<(CHOOSE e \in carts13 : TRUE)[1]>>
         ELSE first_one13
    /\ none_before13' =
         (none_before13 \/ (first_one13 = <<>> /\ carts13 = {}))
    /\ UNCHANGED <<grid13, carts13, previous_carts13, snapshot13, crashes13,
                   ticks13, move13, tick_log13>>
    /\ OthersSame("13")

\* main, lines 25-26 and 30: a tick of the first loop without a crash.
NoCrash ==
    /\ TickEnds /\ phase13 = 1
    /\ crashes13 = {}
    /\ pc13' = "loop"
    /\ UNCHANGED <<phase13, output13>>

\* main, lines 25-30: the first crash; crashes[0] is any of the crashes,
\* as the order of a HashSet is.
FirstCrash ==
    /\ TickEnds /\ phase13 = 1
    /\ \E c \in crashes13 :
         output13' = Append(output13, <<"first crash at", c>>)
    /\ pc13' = "loop"
    /\ phase13' = 2

\* main, lines 33-38: no cart is left.
MutualDestruction ==
    /\ TickEnds /\ phase13 = 2
    /\ uncrashed(carts13) = <<>>
    /\ output13' = Append(output13, <<"mutually assured destruction">>)
    /\ pc13' = "done"
    /\ UNCHANGED phase13

\* main, lines 33-43: one cart is left.
LastCart ==
    /\ TickEnds /\ phase13 = 2
    /\ Len(uncrashed(carts13)) = 1
    /\ output13' = Append(output13,
                          <<"last cart standing at", uncrashed(carts13)[1]>>)
    /\ pc13' = "done"
    /\ UNCHANGED phase13

\* main, lines 33-44: more carts are left.
MoreCarts ==
    /\ TickEnds /\ phase13 = 2
    /\ Len(uncrashed(carts13)) > 1
    /\ pc13' = "loop"
    /\ UNCHANGED <<phase13, output13>>

Next13 ==
    \/ TickBegin \/ CartSkip \/ CartError \/ CartMove
    \/ NoCrash \/ FirstCrash \/ MutualDestruction \/ LastCart \/ MoreCarts

SpecAoc13 == Init13 /\ [][Next13]_vars

(* ---- the claims about aoc13 ---- *)

\* C18: in Transport::step the cart that moved is removed exactly when the
\* cell it moved onto held a cart that no crash had removed (and that cart
\* is removed with it); so the carts removed in a tick are two per
\* collision, and a cart that moves onto a cell whose carts an earlier crash
\* of the tick removed stays on the track.
C18_RemovedInPairs ==
    /\ (pc13 = "step" /\ move13 # <<>>) =>
         /\ move13.stays <=> ~move13.held
         /\ (move13.crashed_before /\ ~move13.held) => move13.stays
    /\ (pc13 = "step" /\ snapshot13 = <<>>) =>
         tick_log13.carts - Cardinality(carts13) = 2 * tick_log13.collisions

\* C20: the coordinate printed as "last cart standing at" is where the only
\* cart left stood at the end of the first tick that left exactly one cart,
\* and "mutually assured destruction" is printed exactly when a tick ended
\* with no cart left before such a tick.
C20_LastCartStanding ==
    /\ \A i \in 1..Len(output13) :
         output13[i][1] = "last cart standing at" =>
           first_one13 = <<output13[i][2]>>
    /\ <<"mutually assured destruction">> \in Range(output13) => none_before13
    /\ (pc13 = "done" /\ <<"Err">> \notin Range(output13) /\ none_before13) =>
         <<"mutually assured destruction">> \in Range(output13)

-----------------------------------------------------------------------------
(***************************************************************************)
(* aoc24: two armies of groups fight until one has no live group.  A Group *)
(* is [units, unit_hp, initiative, attack, weaknesses, immunities]; a      *)
(* reference to a group is <<number of the army, index in its groups>>.    *)
(* The initiatives of the groups of a combat are all different, so the     *)
(* orders of the two sorts are total.                                      *)
(***************************************************************************)

MaxUnits24 == 2      \* units of a group
MaxHp24 == 3         \* hit points of a unit
MaxDamage24 == 2     \* attack damage of a unit

\* Group::is_alive
Group_is_alive(g) == g.units > 0

\* Group::effective_power
effective_power(g) == g.units * g.attack.damage

\* Group::is_immune, Group::is_weak
is_immune(g, kind) == kind \in Range(g.immunities)
is_weak(g, kind) == kind \in Range(g.weaknesses)

\* Group::attack_damage
attack_damage(g, group) ==
    IF is_immune(group, g.attack.kind) THEN 0
    ELSE IF is_weak(group, g.attack.kind) THEN effective_power(g) * 2
    ELSE effective_power(g)

\* Group::absorb: the group after the damage.
absorb(g, damage) ==
    LET units_lost == damage \div g.unit_hp
    IN [g EXCEPT !.units = saturating_sub(g.units, units_lost)]

\* Below, CHOOSE r \in {e : x \in {v}} : TRUE is e with v for x, v being
\* evaluated once however often e uses x.

\* Group::choose_victim, the body of the loop for candidate i: the new
\* choice; choice is 0 for None.
choose_victim_step(g, candidates, i, choice) ==
    LET candidate == candidates[i]
        damage == attack_damage(g, candidate)
        cur_damage == attack_damage(g, candidates[choice])
        epower == effective_power(candidate)
        cur_epower == effective_power(candidates[choice])
    IN IF damage = 0 THEN choice
       ELSE IF choice = 0 THEN i
       ELSE IF damage < cur_damage THEN choice
       ELSE IF damage > cur_damage THEN i
       ELSE IF epower < cur_epower THEN choice
       ELSE IF epower > cur_epower THEN i
       ELSE IF candidate.initiative > candidates[choice].initiative THEN i
       ELSE choice

\* Group::choose_victim, from candidate i on.
RECURSIVE choose_victim_from(_, _, _, _)
choose_victim_from(g, candidates, i, choice) ==
    IF i > Len(candidates) THEN choice
    ELSE CHOOSE r \in {choose_victim_from(g, candidates, i + 1, chosen) :
                         chosen \in {choose_victim_step(g, candidates, i, choice)}} :
           TRUE

\* Group::choose_victim: the index of the victim among the candidates, or 0.
choose_victim(g, candidates) ==
    CHOOSE r \in {choose_victim_from(g, cs, 1, 0) : cs \in {candidates}} : TRUE

\* Vec::swap_remove
swap_remove(s, i) ==
    IF i = Len(s) THEN SubSeq(s, 1, Len(s) - 1)
    ELSE [SubSeq(s, 1, Len(s) - 1) EXCEPT ![i] = s[Len(s)]]

\* Army::alive_groups: the indices of the live groups, in order.
RECURSIVE alive_groups_from(_, _)
alive_groups_from(groups, i) ==
    IF i > Len(groups) THEN <<>>
    ELSE (IF Group_is_alive(groups[i]) THEN <<i>> ELSE <<>>)
         \o alive_groups_from(groups, i + 1)

alive_groups(groups) == alive_groups_from(groups, 1)

\* Army::is_alive
Army_is_alive(groups) == \E i \in 1..Len(groups) : Group_is_alive(groups[i])

\* Army::target_selection_order: the live groups by decreasing effective
\* power, and by decreasing initiative among equals.
RECURSIVE order_groups(_, _)
order_groups(groups, S) ==
    IF S = {} THEN <<>>
    ELSE LET before(i, j) ==
               IF effective_power(groups[i]) # effective_power(groups[j])
               THEN effective_power(groups[i]) > effective_power(groups[j])
               ELSE groups[i].initiative > groups[j].initiative
             tail(first) ==
               CHOOSE r \in {order_groups(groups, T) : T \in {S \ {first}}} : TRUE
         IN CHOOSE r \in {<<first>> \o tail(first) :
                            first \in {CHOOSE i \in S :
                                         \A j \in S \ {i} : before(i, j)}} :
              TRUE

target_selection_order(groups) ==
    CHOOSE r \in {order_groups(groups, S) :
                    S \in {Range(alive_groups(groups))}} : TRUE

\* Army::target_selection, the loop: the plans of the groups in order.
RECURSIVE select_targets(_, _, _, _, _)
select_targets(armies, army, enemy, ordered, candidates) ==
    IF ordered = <<>> THEN <<>>
    ELSE LET g == armies[army][Head(ordered)]
             rest(others) ==
               select_targets(armies, army, enemy, Tail(ordered), others)
             planned(i) ==
               IF i # 0
               THEN <<[attacker |-> <<army, Head(ordered)>>,
                       victim |-> <<enemy, candidates[i]>>]>>
                    \o (CHOOSE r \in {rest(others) :
                                        others \in {swap_remove(candidates, i)}} :
                          TRUE)
               ELSE rest(candidates)
         IN CHOOSE r \in {planned(i) :
                            i \in {choose_victim(g, [k \in 1..Len(candidates) |->
                                                       armies[enemy][candidates[k]]])}} :
              TRUE

\* Army::target_selection
Army_target_selection(armies, army, enemy) ==
    CHOOSE r \in {select_targets(armies, army, enemy, p[1], p[2]) :
                    p \in {<<target_selection_order(armies[army]),
                             alive_groups(armies[enemy])>>}} : TRUE

\* Combat::target_selection, the sort: by decreasing initiative of the
\* attacker.
RECURSIVE sort_plans(_, _)
sort_plans(armies, plans) ==
    IF plans = {} THEN <<>>
    ELSE LET init(p) == armies[p.attacker[1]][p.attacker[2]].initiative
             tail(first) ==
               CHOOSE r \in {sort_plans(armies, others) :
                               others \in {plans \ {first}}} : TRUE
         IN CHOOSE r \in {<<first>> \o tail(first) :
                            first \in {CHOOSE p \in plans :
                                         \A q \in plans \ {p} :
                                           init(p) > init(q)}} : TRUE

\* Combat::target_selection
Combat_target_selection(armies) ==
    CHOOSE r \in {sort_plans(armies, plans) :
                    plans \in {Range(Army_target_selection(armies, 1, 2)
                                     \o Army_target_selection(armies, 2, 1))}} :
      TRUE

\* Combat::winner: the number of the winning army, or None.
winner(armies) ==
    IF ~Army_is_alive(armies[1]) THEN <<2>>
    ELSE IF ~Army_is_alive(armies[2]) THEN <<1>>
    ELSE <<>>

\* The groups of the inputs, without their initiative.
Groups24 ==
    { [units |-> u, unit_hp |-> hp, initiative |-> 0,
       attack |-> [kind |-> kind, damage |-> damage],
       weaknesses |-> traits[1], immunities |-> traits[2]] :
        u \in 1..MaxUnits24, hp \in 1..MaxHp24, damage \in 1..MaxDamage24,
        kind \in {"Fire"},
        traits \in {<< <<>>, <<>> >>, << <<"Fire">>, <<>> >>,
                    << <<>>, <<"Fire">> >>} }

\* The groups without weaknesses and immunities.
PlainGroups24 ==
    {g \in Groups24 : g.weaknesses = <<>> /\ g.immunities = <<>>}

\* The plain groups of one unit.
SingleUnits24 == {g \in PlainGroups24 : g.units = 1}

\* The combats of the inputs: one group against one, and two plain groups
\* of one unit against a plain group, with every order of the initiatives.
Combats24 ==
    { << <<[g1 EXCEPT !.initiative = i]>>,
         <<[g2 EXCEPT !.initiative = 3 - i]>> >> :
        g1 \in Groups24, g2 \in Groups24, i \in 1..2 }
    \cup
    { << <<[t[1] EXCEPT !.initiative = p[1]],
           [t[2] EXCEPT !.initiative = p[2]]>>,
         <<[t[3] EXCEPT !.initiative = p[3]]>> >> :
        t \in SingleUnits24 \X SingleUnits24 \X PlainGroups24,
        p \in {q \in (1..3) \X (1..3) \X (1..3) :
                 q[1] # q[2] /\ q[1] # q[3] /\ q[2] # q[3]} }

\* main, before a Combat is made.
Init24 ==
    /\ armies24 = <<>>
    /\ plans24 = <<>>
    /\ pc24 = "main"
    /\ result24 = <<>>
    /\ OthersOff("24")

\* main, lines 9-13: a Combat of two armies is made and fight_to_end is
\* called.
NewCombat ==
    /\ pc24 = "main"
    /\ armies24' \in Combats24
    /\ pc24' = "loop"
    /\ UNCHANGED <<plans24, result24>>
    /\ OthersSame("24")

\* Combat::fight, line 136: the plans of the round.
TargetSelection ==
    /\ pc24 = "loop"
    /\ plans24' = Combat_target_selection(armies24)
    /\ pc24' = "fight"
    /\ UNCHANGED <<armies24, result24>>
    /\ OthersSame("24")

\* Combat::fight, lines 137-139: the attacker has died in this round.
AttackerDead ==
    /\ pc24 = "fight" /\ plans24 # <<>>
    /\ LET plan == Head(plans24)
       IN ~Group_is_alive(armies24[plan.attacker[1]][plan.attacker[2]])
    /\ plans24' = Tail(plans24)
    /\ UNCHANGED <<armies24, pc24, result24>>
    /\ OthersSame("24")

\* Combat::fight, lines 137-142: the attacker deals its damage.
Attack ==
    /\ pc24 = "fight" /\ plans24 # <<>>
    /\ LET plan == Head(plans24)
           attacker == armies24[plan.attacker[1]][plan.attacker[2]]
           victim == armies24[plan.victim[1]][plan.victim[2]]
       IN /\ Group_is_alive(attacker)
          /\ armies24' =
               [armies24 EXCEPT ![plan.victim[1]][plan.victim[2]] =
                  absorb(victim, attack_damage(attacker, victim))]
    /\ plans24' = Tail(plans24)
    /\ UNCHANGED <<pc24, result24>>
    /\ OthersSame("24")

\* Combat::fight, line 144, and fight_to_end, lines 129-131: a winner.
ReturnWinner ==
    /\ pc24 = "fight" /\ plans24 = <<>>
    /\ winner(armies24) # <<>>
    /\ result24' = winner(armies24)
    /\ pc24' = "done"
    /\ UNCHANGED <<armies24, plans24>>
    /\ OthersSame("24")

\* Combat::fight, line 144, and fight_to_end, lines 128-129: no winner, the
\* loop goes on.
NoWinner ==
    /\ pc24 = "fight" /\ plans24 = <<>>
    /\ winner(armies24) = <<>>
    /\ pc24' = "loop"
    /\ UNCHANGED <<armies24, plans24, result24>>
    /\ OthersSame("24")

Next24 ==
    NewCombat \/ TargetSelection \/ AttackerDead \/ Attack \/ ReturnWinner \/ NoWinner

SpecAoc24 == Init24 /\ [][Next24]_vars

\* The program runs on: whenever it has a next step, it takes one.
FairAoc24 == SpecAoc24 /\ WF_vars(Next24)

(* ---- the claims about aoc24 ---- *)

\* C19: Combat::fight_to_end eventually returns a winner, for every pair of
\* armies that start with a live group each: some round leaves an army
\* without a live group.
C19_FightEnds == <>(pc24 = "done" /\ result24 # <<>>)

=============================================================================
